---- MODULE Spec2Model ----
(***************************************************************************)
(* Predator-prey aggregation model, two solvers:                           *)
(*   ProiePredateurContinu1D.ipynb : 1-D densities rho1, rho2 advanced by  *)
(*                                   an upwind finite-volume scheme;       *)
(*   ProiePredateurDiscret2D.ipynb : 2-D particles advanced by explicit    *)
(*                                   Euler.                                *)
(* Real numbers are exact rationals <<n, d>> (d > 0, lowest terms): the    *)
(* model is the code in exact arithmetic, without floating-point roundoff. *)
(* Arrays are sequences; index i of the code is index i+1 here.            *)
(***************************************************************************)
EXTENDS Integers, Sequences, FiniteSets, TLC

VARIABLES
    solver,  \* which notebook runs: "continuum" or "discrete"
    pc,      \* position of the run in the notebook
    cont,    \* the continuum notebook's variables, by their names
    disc,    \* the discrete notebook's variables, by their names
    obs      \* observer: values of earlier states that the properties refer to

vars == <<solver, pc, cont, disc, obs>>

\* a variable not assigned yet, and the record of the notebook that does not run
Undef == <<>>
NoRun == [none |-> TRUE]

(***************************************************************************)
(* Exact rational arithmetic.  A division by zero gives, as in numpy, no   *)
(* error but a value that is not finite: <<1, 0>> is inf, <<-1, 0>> is     *)
(* -inf and <<0, 0>> is nan.                                               *)
(***************************************************************************)
Abs(i) == IF i < 0 THEN -i ELSE i
Sgn(i) == IF i > 0 THEN 1 ELSE IF i < 0 THEN -1 ELSE 0

RECURSIVE GCD(_, _)
GCD(a, b) == IF b = 0 THEN a ELSE GCD(b, a % b)

\* n/d in lowest terms, for d # 0
Rat(n, d) ==
    LET g == GCD(Abs(n), Abs(d))
        s == IF d < 0 THEN -1 ELSE 1
    IN  <<(s * n) \div g, (s * d) \div g>>

RZero == <<0, 1>>
ROne  == <<1, 1>>
NaN   == <<0, 0>>
RInt(i) == <<i, 1>>

IsFinite(a) == a[2] # 0
IsNaN(a) == a = NaN

RNeg(a) == <<-a[1], a[2]>>

RAdd(a, b) ==
    IF IsFinite(a) /\ IsFinite(b)
    THEN LET g == GCD(a[2], b[2])
         IN  Rat(a[1] * (b[2] \div g) + b[1] * (a[2] \div g), (a[2] \div g) * b[2])
    ELSE IF IsNaN(a) \/ IsNaN(b) THEN NaN
    ELSE IF IsFinite(a) THEN b
    ELSE IF IsFinite(b) \/ a = b THEN a
    ELSE NaN

RSub(a, b) == RAdd(a, RNeg(b))

RMul(a, b) ==
    IF IsFinite(a) /\ IsFinite(b)
    THEN IF a[1] = 0 \/ b[1] = 0 THEN RZero
         ELSE LET g1 == GCD(Abs(a[1]), b[2])
                  g2 == GCD(Abs(b[1]), a[2])
              IN  <<(a[1] \div g1) * (b[1] \div g2), (a[2] \div g2) * (b[2] \div g1)>>
    ELSE <<Sgn(a[1]) * Sgn(b[1]), 0>>

\* 1/b
Recip(b) ==
    IF ~IsFinite(b) THEN (IF IsNaN(b) THEN NaN ELSE RZero)
    ELSE IF b[1] = 0 THEN <<1, 0>>
    ELSE IF b[1] < 0 THEN <<-b[2], -b[1]>>
    ELSE <<b[2], b[1]>>

\* a / b
RDiv(a, b) == RMul(a, Recip(b))

RLe(a, b) == ~IsNaN(a) /\ ~IsNaN(b) /\ (a = b \/ a[1] * b[2] < b[1] * a[2])
RLt(a, b) == ~IsNaN(a) /\ ~IsNaN(b) /\ a # b /\ a[1] * b[2] <= b[1] * a[2]
RAbs(a) == <<Abs(a[1]), a[2]>>

\* Python's True / False as the numbers 1 / 0 in a product
RBool(b) == IF b THEN ROne ELSE RZero

(***************************************************************************)
(* numpy array helpers                                                     *)
(***************************************************************************)
\* the integers of the model are 32-bit: the exact values of an array are
\* followed while numerators and denominators stay below MaxDen
MaxDen == 2000
InRange(v) ==
    \A i \in 1..Len(v) : IsFinite(v[i]) /\ Abs(v[i][1]) <= MaxDen /\ v[i][2] <= MaxDen

RECURSIVE VSumTo(_, _)
VSumTo(v, k) == IF k = 0 THEN RZero ELSE RAdd(VSumTo(v, k - 1), v[k])

\* sum(v)
VSum(v) == VSumTo(v, Len(v))

\* np.dot(row, v)
RECURSIVE DotTo(_, _, _)
DotTo(row, v, k) ==
    IF k = 0 THEN RZero ELSE RAdd(DotTo(row, v, k - 1), RMul(row[k], v[k]))

\* np.dot(M, v), M a matrix given by its rows
MatVec(M, v) == [i \in 1..Len(M) |-> DotTo(M[i], v, Len(v))]

\* Zeros with np.ones(N)
Ones(N) == [i \in 1..N |-> ROne]

\* np.zeros(N)
Zeros(N) == [i \in 1..N |-> RZero]

\* np.linspace(a, b, N) for N >= 1: a + i*(b-a)/(N-1), i = 0..N-1
Linspace(a, b, N) ==
    IF N = 1 THEN <<a>>
    ELSE [i \in 1..N |-> RAdd(a, RMul(RInt(i - 1), RDiv(RSub(b, a), RInt(N - 1))))]

\* np.sign
Sign(x) == IF x[1] > 0 THEN ROne ELSE IF x[1] < 0 THEN RNeg(ROne) ELSE RZero

(***************************************************************************)
(* Continuum solver (ProiePredateurContinu1D.ipynb)                        *)
(***************************************************************************)
MaxNx == 4   \* grid sizes 2..MaxNx
MaxNt == 3   \* time points 2..MaxNt

\* the derivatives the lambdas dxW1, dxW2, dxK may be configured with:
\* np.sign(x) (potential |x|, as in the notebook) and 0 (no interaction)
Kernels == {"sign", "zero"}

Deriv(kind, x) ==
    CASE kind = "sign" -> Sign(x)
      [] kind = "zero" -> RZero

\* rho1_ini, rho2_ini are indicator functions: 1.*(cond)*(cond) is 0 or 1
IniValues == {0, 1}

xmin == -1
xmax == 1
tf == 2
beta == <<3, 10>>

\* the values of an initial-condition lambda on a grid of N points, with
\* positive mass on the grid
IniArrays(N) == {f \in [1..N -> IniValues] : \E i \in 1..N : f[i] # 0}

\* GridDiff the other way round: entry (i, l) of
\* grid - np.tile(grid.reshape((Nx, 1)), (1, Nx))
GridDiffReversed(grid, i, l) == RSub(grid[l], grid[i])

\* entry (i, l) of np.tile(grid.reshape((Nx, 1)), (1, Nx)) - grid
GridDiff(grid, i, l) == RSub(grid[i], grid[l])

\* dxW(np.tile(grid.reshape((Nx, 1)), (1, Nx)) - grid)
KernelMatrix(kind, grid) ==
    [i \in 1..Len(grid) |-> [l \in 1..Len(grid) |-> Deriv(kind, GridDiff(grid, i, l))]]

\* the parameter cell: grid, Dx, T, Dt from xmin, xmax, Nx, Nt, tf
InitContinu ==
    /\ solver = "continuum"
    /\ pc = "init"
    /\ disc = NoRun
    /\ obs = Undef
    /\ \E Nx \in 2..MaxNx, Nt \in 2..MaxNt,
          k1 \in Kernels, k2 \in Kernels, kK \in Kernels :
       \E ini1 \in IniArrays(Nx), ini2 \in IniArrays(Nx) :
          LET grid == Linspace(RInt(xmin), RInt(xmax), Nx)
              T    == Linspace(RZero, RInt(tf), Nt)
          IN  cont = [ dxW1 |-> k1, dxW2 |-> k2, dxK |-> kK,
                       rho1_ini |-> ini1, rho2_ini |-> ini2,
                       xmin |-> xmin, xmax |-> xmax, Nx |-> Nx,
                       grid |-> grid, Dx |-> RSub(grid[2], grid[1]),
                       Nt |-> Nt, tf |-> tf, T |-> T,
                       Dt |-> RSub(T[2], T[1]), beta |-> beta,
                       W1p |-> Undef, W2p |-> Undef, Kp |-> Undef,
                       rho1 |-> Undef, s1 |-> Undef,
                       rho2 |-> Undef, s2 |-> Undef,
                       a1 |-> Undef, rho1_dp |-> Undef, rho1_gm |-> Undef,
                       a2 |-> Undef, rho2_dp |-> Undef, rho2_gm |-> Undef,
                       a1p |-> Undef, a1m |-> Undef,
                       a2p |-> Undef, a2m |-> Undef,
                       cpt |-> Undef, n |-> Undef ]

\* rho = rho_ini(grid); s = sum(rho); rho /= s
Normalise(ini) ==
    LET s == VSum([i \in 1..Len(ini) |-> RInt(ini[i])])
    IN  [i \in 1..Len(ini) |-> RDiv(RInt(ini[i]), s)]

\* the set-up before the loop: interaction matrices, normalised densities,
\* zeroed velocities and shifted buffers, cpt = 0
Initialise ==
    /\ solver = "continuum"
    /\ pc = "init"
    /\ LET Nx == cont.Nx
           r1 == Normalise(cont.rho1_ini)
           r2 == Normalise(cont.rho2_ini)
       IN  /\ cont' = [cont EXCEPT
                 !.W1p = KernelMatrix(cont.dxW1, cont.grid),
                 !.W2p = KernelMatrix(cont.dxW2, cont.grid),
                 !.Kp  = KernelMatrix(cont.dxK, cont.grid),
                 !.rho1 = r1,
                 !.s1 = VSum([i \in 1..Nx |-> RInt(cont.rho1_ini[i])]),
                 !.rho2 = r2,
                 !.s2 = VSum([i \in 1..Nx |-> RInt(cont.rho2_ini[i])]),
                 !.a1 = Zeros(Nx), !.rho1_dp = Zeros(Nx), !.rho1_gm = Zeros(Nx),
                 !.a2 = Zeros(Nx), !.rho2_dp = Zeros(Nx), !.rho2_gm = Zeros(Nx),
                 !.cpt = 0, !.n = 0]
           /\ obs' = [rho1_0 |-> r1, rho2_0 |-> r2,
                      exited1 |-> FALSE, exited2 |-> FALSE,
                      out1 |-> RZero, out2 |-> RZero, cfl |-> TRUE]
    /\ pc' = "loop"
    /\ UNCHANGED <<solver, disc>>

\* a1 = - (np.dot(W1p, rho1) + np.dot(Kp, rho2))
Velocity1(W1p, Kp, rho1, rho2) ==
    LET w == MatVec(W1p, rho1)
        k == MatVec(Kp, rho2)
    IN  [i \in 1..Len(rho1) |-> RNeg(RAdd(w[i], k[i]))]

\* Velocity2 without the factor beta: a2 = - (np.dot(W2p, rho2) - np.dot(Kp, rho1))
Velocity2Unscaled(W2p, Kp, b, rho1, rho2) ==
    LET w == MatVec(W2p, rho2)
        k == MatVec(Kp, rho1)
    IN  [i \in 1..Len(rho2) |-> RNeg(RSub(w[i], k[i]))]

\* a2 = - (np.dot(W2p, rho2) - beta * np.dot(Kp, rho1))
Velocity2(W2p, Kp, b, rho1, rho2) ==
    LET w == MatVec(W2p, rho2)
        k == MatVec(Kp, rho1)
    IN  [i \in 1..Len(rho2) |-> RNeg(RSub(w[i], RMul(b, k[i])))]

\* PosPart without the factor a: ap = (a>=0)
PosPartMask(a) == [i \in 1..Len(a) |-> RBool(RLe(RZero, a[i]))]

\* ap = a*(a>=0)
PosPart(a) == [i \in 1..Len(a) |-> RMul(a[i], RBool(RLe(RZero, a[i])))]

\* NegPart without the mask: am = -a
NegPartUnmasked(a) == [i \in 1..Len(a) |-> RNeg(a[i])]

\* NegPart without the minus sign: am = a*(a<=0)
NegPartSigned(a) == [i \in 1..Len(a) |-> RMul(a[i], RBool(RLe(a[i], RZero)))]

\* am = -a*(a<=0)
NegPart(a) == [i \in 1..Len(a) |-> RMul(RNeg(a[i]), RBool(RLe(a[i], RZero)))]

\* ShiftRight with the velocity of the receiving cell:
\* rho_dp[1:] = ap[1:]*rho[:-1]
ShiftRightOwnVelocity(dp, ap, rho) ==
    [i \in 1..Len(rho) |-> IF i = 1 THEN dp[i] ELSE RMul(ap[i], rho[i - 1])]

\* rho_dp[1:] = ap[:-1]*rho[:-1]   (entry 0 keeps its value)
ShiftRight(dp, ap, rho) ==
    [i \in 1..Len(rho) |-> IF i = 1 THEN dp[i] ELSE RMul(ap[i - 1], rho[i - 1])]

\* ShiftLeft with the velocity of the receiving cell:
\* rho_gm[:-1] = am[:-1]*rho[1:]
ShiftLeftOwnVelocity(gm, am, rho) ==
    [i \in 1..Len(rho) |-> IF i = Len(rho) THEN gm[i] ELSE RMul(am[i], rho[i + 1])]

\* rho_gm[:-1] = am[1:]*rho[1:]    (the last entry keeps its value)
ShiftLeft(gm, am, rho) ==
    [i \in 1..Len(rho) |-> IF i = Len(rho) THEN gm[i] ELSE RMul(am[i + 1], rho[i + 1])]

\* Upwind without the factor Dt/Dx:
\* rho -= ap*rho + am*rho - rho_dp - rho_gm
UpwindUnscaled(rho, ap, am, dp, gm, Dt, Dx) ==
    [i \in 1..Len(rho) |->
        RSub(rho[i],
             RSub(RSub(RAdd(RMul(ap[i], rho[i]), RMul(am[i], rho[i])), dp[i]),
                  gm[i]))]

\* Upwind with the left-going inflow subtracted instead of added:
\* rho -= Dt/Dx*(ap*rho + am*rho - rho_dp + rho_gm)
UpwindInflowLost(rho, ap, am, dp, gm, Dt, Dx) ==
    [i \in 1..Len(rho) |->
        RSub(rho[i],
             RMul(RDiv(Dt, Dx),
                  RAdd(RSub(RAdd(RMul(ap[i], rho[i]), RMul(am[i], rho[i])), dp[i]),
                       gm[i])))]

\* rho -= Dt/Dx*(ap*rho + am*rho - rho_dp - rho_gm)
Upwind(rho, ap, am, dp, gm, Dt, Dx) ==
    [i \in 1..Len(rho) |->
        RSub(rho[i],
             RMul(RDiv(Dt, Dx),
                  RSub(RSub(RAdd(RMul(ap[i], rho[i]), RMul(am[i], rho[i])), dp[i]),
                       gm[i])))]

\* mass leaving through the two boundary cells in a step, per unit Dt/Dx:
\* the terms am[0]*rho[0] and ap[Nx-1]*rho[Nx-1] of the update that no
\* neighbouring cell receives
BoundaryOut(rho, ap, am) ==
    RAdd(RMul(am[1], rho[1]), RMul(ap[Len(rho)], rho[Len(rho)]))

\* no density sits in a boundary cell with outward velocity
NoOutflow(rho, ap, am) ==
    /\ RMul(rho[1], am[1]) = RZero
    /\ RMul(rho[Len(rho)], ap[Len(rho)]) = RZero

\* the CFL condition (Dt/Dx)*max|a| <= 1
CFL(a, Dt, Dx) == \A i \in 1..Len(a) : RLe(RMul(RDiv(Dt, Dx), RAbs(a[i])), ROne)

\* StepContinu with beta multiplied into Kp in place: Kp *= beta, then
\* a2 = - (np.dot(W2p, rho2) - np.dot(Kp, rho1))
StepContinuScalingKp ==
    /\ solver = "continuum"
    /\ pc = "loop"
    /\ cont.n < Len(cont.T)
    /\ InRange(cont.rho1) /\ InRange(cont.rho2)
    /\ \E a1 \in {Velocity1(cont.W1p, cont.Kp, cont.rho1, cont.rho2)},
          a2 \in {Velocity2(cont.W2p, cont.Kp, cont.beta, cont.rho1, cont.rho2)} :
       \E a1p \in {PosPart(a1)}, a1m \in {NegPart(a1)},
          a2p \in {PosPart(a2)}, a2m \in {NegPart(a2)} :
       \E dp1 \in {ShiftRight(cont.rho1_dp, a1p, cont.rho1)},
          gm1 \in {ShiftLeft(cont.rho1_gm, a1m, cont.rho1)},
          dp2 \in {ShiftRight(cont.rho2_dp, a2p, cont.rho2)},
          gm2 \in {ShiftLeft(cont.rho2_gm, a2m, cont.rho2)} :
           /\ cont' = [cont EXCEPT
                 !.a1 = a1, !.a2 = a2,
                 !.a1p = a1p, !.a1m = a1m, !.rho1_dp = dp1, !.rho1_gm = gm1,
                 !.rho1 = Upwind(cont.rho1, a1p, a1m, dp1, gm1, cont.Dt, cont.Dx),
                 !.a2p = a2p, !.a2m = a2m, !.rho2_dp = dp2, !.rho2_gm = gm2,
                 !.rho2 = Upwind(cont.rho2, a2p, a2m, dp2, gm2, cont.Dt, cont.Dx),
                 !.cpt = IF cont.n % 10 = 0 THEN cont.cpt + 1 ELSE cont.cpt,
                 !.n = cont.n + 1,
                 !.Kp = [i \in 1..cont.Nx |-> [l \in 1..cont.Nx |->
                            RMul(cont.beta, cont.Kp[i][l])]]]
           /\ obs' = [obs EXCEPT
                 !.exited1 = obs.exited1 \/ ~NoOutflow(cont.rho1, a1p, a1m),
                 !.exited2 = obs.exited2 \/ ~NoOutflow(cont.rho2, a2p, a2m),
                 !.out1 = RAdd(obs.out1, RMul(RDiv(cont.Dt, cont.Dx),
                                              BoundaryOut(cont.rho1, a1p, a1m))),
                 !.out2 = RAdd(obs.out2, RMul(RDiv(cont.Dt, cont.Dx),
                                              BoundaryOut(cont.rho2, a2p, a2m))),
                 !.cfl = /\ obs.cfl
                         /\ CFL(a1, cont.Dt, cont.Dx)
                         /\ CFL(a2, cont.Dt, cont.Dx)]
    /\ UNCHANGED <<solver, pc, disc>>

\* StepContinu with a2 computed after the update of rho1, from the updated
\* rho1
StepContinuSequential ==
    /\ solver = "continuum"
    /\ pc = "loop"
    /\ cont.n < Len(cont.T)
    /\ InRange(cont.rho1) /\ InRange(cont.rho2)
    /\ \E a1 \in {Velocity1(cont.W1p, cont.Kp, cont.rho1, cont.rho2)} :
       \E a1p \in {PosPart(a1)}, a1m \in {NegPart(a1)} :
       \E dp1 \in {ShiftRight(cont.rho1_dp, a1p, cont.rho1)},
          gm1 \in {ShiftLeft(cont.rho1_gm, a1m, cont.rho1)} :
       \E rho1 \in {Upwind(cont.rho1, a1p, a1m, dp1, gm1, cont.Dt, cont.Dx)} :
       \E a2 \in {Velocity2(cont.W2p, cont.Kp, cont.beta, rho1, cont.rho2)} :
       \E a2p \in {PosPart(a2)}, a2m \in {NegPart(a2)} :
       \E dp2 \in {ShiftRight(cont.rho2_dp, a2p, cont.rho2)},
          gm2 \in {ShiftLeft(cont.rho2_gm, a2m, cont.rho2)} :
           /\ cont' = [cont EXCEPT
                 !.a1 = a1, !.a2 = a2,
                 !.a1p = a1p, !.a1m = a1m, !.rho1_dp = dp1, !.rho1_gm = gm1,
                 !.rho1 = rho1,
                 !.a2p = a2p, !.a2m = a2m, !.rho2_dp = dp2, !.rho2_gm = gm2,
                 !.rho2 = Upwind(cont.rho2, a2p, a2m, dp2, gm2, cont.Dt, cont.Dx),
                 !.cpt = IF cont.n % 10 = 0 THEN cont.cpt + 1 ELSE cont.cpt,
                 !.n = cont.n + 1]
           /\ obs' = [obs EXCEPT
                 !.exited1 = obs.exited1 \/ ~NoOutflow(cont.rho1, a1p, a1m),
                 !.exited2 = obs.exited2 \/ ~NoOutflow(cont.rho2, a2p, a2m),
                 !.out1 = RAdd(obs.out1, RMul(RDiv(cont.Dt, cont.Dx),
                                              BoundaryOut(cont.rho1, a1p, a1m))),
                 !.out2 = RAdd(obs.out2, RMul(RDiv(cont.Dt, cont.Dx),
                                              BoundaryOut(cont.rho2, a2p, a2m))),
                 !.cfl = /\ obs.cfl
                         /\ CFL(a1, cont.Dt, cont.Dx)
                         /\ CFL(a2, cont.Dt, cont.Dx)]
    /\ UNCHANGED <<solver, pc, disc>>

\* StepContinu with a test of the CFL condition before the update, which
\* ends the run in an error where Dt/Dx*max|a| > 1
StepContinuChecked ==
    /\ solver = "continuum"
    /\ pc = "loop"
    /\ cont.n < Len(cont.T)
    /\ InRange(cont.rho1) /\ InRange(cont.rho2)
    /\ \E a1 \in {Velocity1(cont.W1p, cont.Kp, cont.rho1, cont.rho2)},
          a2 \in {Velocity2(cont.W2p, cont.Kp, cont.beta, cont.rho1, cont.rho2)} :
       \E a1p \in {PosPart(a1)}, a1m \in {NegPart(a1)},
          a2p \in {PosPart(a2)}, a2m \in {NegPart(a2)} :
       \E dp1 \in {ShiftRight(cont.rho1_dp, a1p, cont.rho1)},
          gm1 \in {ShiftLeft(cont.rho1_gm, a1m, cont.rho1)},
          dp2 \in {ShiftRight(cont.rho2_dp, a2p, cont.rho2)},
          gm2 \in {ShiftLeft(cont.rho2_gm, a2m, cont.rho2)} :
           IF ~(CFL(a1, cont.Dt, cont.Dx) /\ CFL(a2, cont.Dt, cont.Dx))
           THEN pc' = "error" /\ UNCHANGED <<cont, obs>>
           ELSE /\ pc' = pc
                /\ cont' = [cont EXCEPT
                      !.a1 = a1, !.a2 = a2,
                      !.a1p = a1p, !.a1m = a1m, !.rho1_dp = dp1, !.rho1_gm = gm1,
                      !.rho1 = Upwind(cont.rho1, a1p, a1m, dp1, gm1, cont.Dt, cont.Dx),
                      !.a2p = a2p, !.a2m = a2m, !.rho2_dp = dp2, !.rho2_gm = gm2,
                      !.rho2 = Upwind(cont.rho2, a2p, a2m, dp2, gm2, cont.Dt, cont.Dx),
                      !.cpt = IF cont.n % 10 = 0 THEN cont.cpt + 1 ELSE cont.cpt,
                      !.n = cont.n + 1]
                /\ obs' = [obs EXCEPT
                      !.exited1 = obs.exited1 \/ ~NoOutflow(cont.rho1, a1p, a1m),
                      !.exited2 = obs.exited2 \/ ~NoOutflow(cont.rho2, a2p, a2m),
                      !.out1 = RAdd(obs.out1, RMul(RDiv(cont.Dt, cont.Dx),
                                                   BoundaryOut(cont.rho1, a1p, a1m))),
                      !.out2 = RAdd(obs.out2, RMul(RDiv(cont.Dt, cont.Dx),
                                                   BoundaryOut(cont.rho2, a2p, a2m))),
                      !.cfl = /\ obs.cfl
                              /\ CFL(a1, cont.Dt, cont.Dx)
                              /\ CFL(a2, cont.Dt, cont.Dx)]
    /\ UNCHANGED <<solver, disc>>

\* one iteration of "for n,t in enumerate(T)"; a run is followed as long as
\* its exact values fit the model's integers
StepContinu ==
    /\ solver = "continuum"
    /\ pc = "loop"
    /\ cont.n < Len(cont.T)
    /\ InRange(cont.rho1) /\ InRange(cont.rho2)
    /\ \E a1 \in {Velocity1(cont.W1p, cont.Kp, cont.rho1, cont.rho2)},
          a2 \in {Velocity2(cont.W2p, cont.Kp, cont.beta, cont.rho1, cont.rho2)} :
       \E a1p \in {PosPart(a1)}, a1m \in {NegPart(a1)},
          a2p \in {PosPart(a2)}, a2m \in {NegPart(a2)} :
       \E dp1 \in {ShiftRight(cont.rho1_dp, a1p, cont.rho1)},
          gm1 \in {ShiftLeft(cont.rho1_gm, a1m, cont.rho1)},
          dp2 \in {ShiftRight(cont.rho2_dp, a2p, cont.rho2)},
          gm2 \in {ShiftLeft(cont.rho2_gm, a2m, cont.rho2)} :
           /\ cont' = [cont EXCEPT
                 !.a1 = a1, !.a2 = a2,
                 !.a1p = a1p, !.a1m = a1m, !.rho1_dp = dp1, !.rho1_gm = gm1,
                 !.rho1 = Upwind(cont.rho1, a1p, a1m, dp1, gm1, cont.Dt, cont.Dx),
                 !.a2p = a2p, !.a2m = a2m, !.rho2_dp = dp2, !.rho2_gm = gm2,
                 !.rho2 = Upwind(cont.rho2, a2p, a2m, dp2, gm2, cont.Dt, cont.Dx),
                 !.cpt = IF cont.n % 10 = 0 THEN cont.cpt + 1 ELSE cont.cpt,
                 !.n = cont.n + 1]
           /\ obs' = [obs EXCEPT
                 !.exited1 = obs.exited1 \/ ~NoOutflow(cont.rho1, a1p, a1m),
                 !.exited2 = obs.exited2 \/ ~NoOutflow(cont.rho2, a2p, a2m),
                 !.out1 = RAdd(obs.out1, RMul(RDiv(cont.Dt, cont.Dx),
                                              BoundaryOut(cont.rho1, a1p, a1m))),
                 !.out2 = RAdd(obs.out2, RMul(RDiv(cont.Dt, cont.Dx),
                                              BoundaryOut(cont.rho2, a2p, a2m))),
                 !.cfl = /\ obs.cfl
                         /\ CFL(a1, cont.Dt, cont.Dx)
                         /\ CFL(a2, cont.Dt, cont.Dx)]
    /\ UNCHANGED <<solver, pc, disc>>

\* FinishContinu with an exit from the loop after any iteration
FinishContinuEarly ==
    /\ solver = "continuum"
    /\ pc = "loop"
    /\ cont.n >= 1
    /\ pc' = "done"
    /\ UNCHANGED <<solver, cont, disc, obs>>

\* the loop is exhausted: the final plot
FinishContinu ==
    /\ solver = "continuum"
    /\ pc = "loop"
    /\ cont.n = Len(cont.T)
    /\ pc' = "done"
    /\ UNCHANGED <<solver, cont, disc, obs>>

(***************************************************************************)
(* Discrete solver (ProiePredateurDiscret2D.ipynb)                         *)
(***************************************************************************)
MaxN == 2   \* particle numbers 1..MaxN
MaxT == 1   \* final times 1..MaxT

\* integer square root, by bisection
RECURSIVE ISqrtIn(_, _, _)
ISqrtIn(k, lo, hi) ==
    IF lo >= hi THEN lo
    ELSE LET mid == (lo + hi + 1) \div 2
         IN  IF mid * mid <= k THEN ISqrtIn(k, mid, hi) ELSE ISqrtIn(k, lo, mid - 1)

ISqrt(k) == ISqrtIn(k, 0, IF k < 46340 THEN k ELSE 46340)

\* q >= 0 has a rational square root
HasSqrt(q) == ISqrt(q[1]) * ISqrt(q[1]) = q[1] /\ ISqrt(q[2]) * ISqrt(q[2]) = q[2]

\* sqrt(q), exact where HasSqrt(q)
Sqrt(q) == <<ISqrt(q[1]), ISqrt(q[2])>>

\* the derivatives s1prime, s2prime, kprime may be configured with:
\* "step": 0*(r==0) + c*(r>0), as in the notebook, and "zero"
Radials == {"step", "zero"}

RadialDeriv(kind, c, r) ==
    CASE kind = "step" -> RAdd(RMul(RZero, RBool(r = RZero)), RMul(c, RBool(RLt(RZero, r))))
      [] kind = "zero" -> RZero

\* the magnitudes of the notebook: 0.1 for s1prime and s2prime, 1 for kprime
sMagnitude == <<1, 10>>
kMagnitude == <<1, 1>>

s1prime(kind, r) == RadialDeriv(kind, sMagnitude, r)
s2prime(kind, r) == RadialDeriv(kind, sMagnitude, r)
kprime(kind, r)  == RadialDeriv(kind, kMagnitude, r)

\* prey speeds: 0.3 as in the notebook, and 1
Alphas == {<<3, 10>>, <<1, 1>>}

\* time step
dt == <<1, 2>>

\* positions drawn in [0, 0.5)^2: the corners of a rectangle of sides 0.3 and
\* 0.4, whose pairwise distances (0.3, 0.4, 0.5) are rational
Points == << <<RZero, RZero>>, <<<<3, 10>>, RZero>>,
             <<RZero, <<2, 5>>>>, <<<<3, 10>>, <<2, 5>>>> >>

\* the draws of N points: particles are drawn independently, so that every
\* draw is a relabelling of one whose point numbers do not decrease
Draws(N) == {f \in [1..N -> 1..Len(Points)] : \A i \in 1..(N - 1) : f[i] <= f[i + 1]}

\* int(q) for q >= 0
IntPart(q) == q[1] \div q[2]

\* the parameter cell and the counters of the loop cell; x2 and y2 are
\* created with N1 rows
InitDiscret ==
    /\ solver = "discrete"
    /\ pc = "loop"
    /\ cont = NoRun
    /\ \E N1 \in 1..MaxN, N2 \in 1..MaxN, T \in 1..MaxT, alpha \in Alphas,
          k1 \in Radials, k2 \in Radials, kK \in Radials :
       \E p1 \in Draws(N1), p2 \in Draws(N1) :
          LET x1 == [i \in 1..N1 |-> Points[p1[i]][1]]
              y1 == [i \in 1..N1 |-> Points[p1[i]][2]]
              x2 == [i \in 1..N1 |-> Points[p2[i]][1]]
              y2 == [i \in 1..N1 |-> Points[p2[i]][2]]
              nT == IntPart(RDiv(RInt(T), dt))
          IN  /\ disc = [ s1prime |-> k1, s2prime |-> k2, kprime |-> kK,
                          N1 |-> N1, N2 |-> N2, alpha |-> alpha,
                          dt |-> dt, T |-> T, nT |-> nT,
                          x1 |-> x1, y1 |-> y1, x2 |-> x2, y2 |-> y2,
                          dx1 |-> Zeros(N1), dy1 |-> Zeros(N1),
                          dx2 |-> Zeros(N2), dy2 |-> Zeros(N2),
                          norm1Diff |-> Undef, norm12Diff |-> Undef,
                          norm2Diff |-> Undef,
                          times |-> Linspace(RZero, RInt(T), nT + 1),
                          cnt |-> 0, cnt_sav |-> 0, sav |-> 10, n |-> 0 ]
              /\ obs = [x1_0 |-> x1, y1_0 |-> y1, x2_0 |-> x2, y2_0 |-> y2]

\* matl.repmat(u, 1, C) - matl.repmat(v.T, R, 1) for column arrays u, v, under
\* numpy's broadcasting: a (Len(u), C) array minus a (R, Len(v)) array
Broadcastable(a, b) == a = b \/ a = 1 \/ b = 1
Larger(a, b) == IF a >= b THEN a ELSE b
DiffShapesFit(u, v, R, C) == Broadcastable(Len(u), R) /\ Broadcastable(C, Len(v))
\* DiffMatrix with the two arrays added:
\* matl.repmat(u, 1, C) + matl.repmat(v.T, R, 1)
DiffMatrixAdded(u, v, R, C) ==
    [i \in 1..Larger(Len(u), R) |-> [j \in 1..Larger(C, Len(v)) |->
        RAdd(u[IF Len(u) = 1 THEN 1 ELSE i], v[IF Len(v) = 1 THEN 1 ELSE j])]]
\* the difference
DiffMatrix(u, v, R, C) ==
    [i \in 1..Larger(Len(u), R) |-> [j \in 1..Larger(C, Len(v)) |->
        RSub(u[IF Len(u) = 1 THEN 1 ELSE i], v[IF Len(v) = 1 THEN 1 ELSE j])]]

\* xDiff**2 + yDiff**2, elementwise
SquaredNorm(xd, yd) ==
    [i \in 1..Len(xd) |-> [j \in 1..Len(xd[i]) |->
        RAdd(RMul(xd[i][j], xd[i][j]), RMul(yd[i][j], yd[i][j]))]]

\* sqrt, elementwise
NormMatrix(sq) == [i \in 1..Len(sq) |-> [j \in 1..Len(sq[i]) |-> Sqrt(sq[i][j])]]

\* Sentinel with a test that also holds of the positive entries:
\* norm = norm*(norm>0) + 1*(norm>=0)
SentinelInclusive(nm) ==
    [i \in 1..Len(nm) |-> [j \in 1..Len(nm[i]) |->
        RAdd(RMul(nm[i][j], RBool(RLt(RZero, nm[i][j]))),
             RMul(ROne, RBool(RLe(RZero, nm[i][j]))))]]

\* Sentinel with the test of the substitution turned round:
\* norm = norm*(norm>0) + 1*(norm<0)
SentinelWrongTest(nm) ==
    [i \in 1..Len(nm) |-> [j \in 1..Len(nm[i]) |->
        RAdd(RMul(nm[i][j], RBool(RLt(RZero, nm[i][j]))),
             RMul(ROne, RBool(RLt(nm[i][j], RZero))))]]

\* norm = norm*(norm>0) + 1*(norm==0), elementwise
Sentinel(nm) ==
    [i \in 1..Len(nm) |-> [j \in 1..Len(nm[i]) |->
        RAdd(RMul(nm[i][j], RBool(RLt(RZero, nm[i][j]))),
             RMul(ROne, RBool(nm[i][j] = RZero)))]]

\* diff * prime(norm) / norm, elementwise, with prime(norm) given
Directional(diff, primes, nm) ==
    [i \in 1..Len(diff) |-> [j \in 1..Len(diff[i]) |->
        RDiv(RMul(diff[i][j], primes[i][j]), nm[i][j])]]

S1primes(kind, nm) == [i \in 1..Len(nm) |-> [j \in 1..Len(nm[i]) |-> s1prime(kind, nm[i][j])]]
S2primes(kind, nm) == [i \in 1..Len(nm) |-> [j \in 1..Len(nm[i]) |-> s2prime(kind, nm[i][j])]]
\* Kprimes with the derivative of the line copied: dxK = x1x2Diff * s1prime(norm12Diff) / norm12Diff
KprimesCopied(kind, nm) == [i \in 1..Len(nm) |-> [j \in 1..Len(nm[i]) |-> s1prime(kind, nm[i][j])]]
Kprimes(kind, nm)  == [i \in 1..Len(nm) |-> [j \in 1..Len(nm[i]) |-> kprime(kind, nm[i][j])]]

\* RowSums of the lower triangle only: sum(np.tril(M), axis=1)
RowSumsLower(M) ==
    [i \in 1..Len(M) |-> VSumTo(M[i], IF i <= Len(M[i]) THEN i ELSE Len(M[i]))]

\* sum(M, axis=1)
RowSums(M) == [i \in 1..Len(M) |-> VSum(M[i])]

\* M.T for a matrix with at least one row
Transpose(M) == [j \in 1..Len(M[1]) |-> [i \in 1..Len(M) |-> M[i][j]]]

\* PredatorVelocity with the sign of the cross term changed:
\* dx1 = - sum(dxS1, axis=1)/N1 + sum(dxK, axis=1)/N2
PredatorVelocityFleeing(dS1, dK, N1, N2) ==
    LET a == RowSums(dS1)
        b == RowSums(dK)
    IN  [i \in 1..Len(a) |->
            RAdd(RDiv(RNeg(a[i]), RInt(N1)), RDiv(b[i], RInt(N2)))]

\* dx1 = - sum(dxS1, axis=1)/N1 - sum(dxK, axis=1)/N2
PredatorVelocity(dS1, dK, N1, N2) ==
    LET a == RowSums(dS1)
        b == RowSums(dK)
    IN  [i \in 1..Len(a) |->
            RSub(RDiv(RNeg(a[i]), RInt(N1)), RDiv(b[i], RInt(N2)))]

\* PreyVelocity without the minus sign of the self-interaction:
\* dx2 = sum(dxS2, axis=1)/N2 - alpha * sum(dxK.T, axis=1)/N1
PreyVelocityRepelled(dS2, dK, alpha, N1, N2) ==
    LET a == RowSums(dS2)
        b == RowSums(Transpose(dK))
    IN  [i \in 1..Len(a) |->
            RSub(RDiv(a[i], RInt(N2)), RDiv(RMul(alpha, b[i]), RInt(N1)))]

\* dx2 = - sum(dxS2, axis=1)/N2 - alpha * sum(dxK.T, axis=1)/N1
PreyVelocity(dS2, dK, alpha, N1, N2) ==
    LET a == RowSums(dS2)
        b == RowSums(Transpose(dK))
    IN  [i \in 1..Len(a) |->
            RSub(RDiv(RNeg(a[i]), RInt(N2)), RDiv(RMul(alpha, b[i]), RInt(N1)))]

\* x += dt*dx.reshape(N,1)
Euler(x, h, dx) == [i \in 1..Len(x) |-> RAdd(x[i], RMul(h, dx[i]))]

\* the exact values of a step are followed where every distance is rational
AllHaveSqrt(sq) == \A i \in 1..Len(sq) : \A j \in 1..Len(sq[i]) : HasSqrt(sq[i][j])

Rational(S) == {sq \in S : AllHaveSqrt(sq)}

\* and the positions are in range
Followed(d) == InRange(d.x1) /\ InRange(d.y1) /\ InRange(d.x2) /\ InRange(d.y2)

\* StepDiscret with the predators advanced before the velocities of the prey
\* are computed: x1 += dt*dx1, y1 += dt*dy1, then x1x2Diff, dxK, dx2 and dy2
StepDiscretSequential ==
    /\ solver = "discrete"
    /\ pc = "loop"
    /\ disc.n < Len(disc.times)
    /\ Len(disc.x2) = disc.N2
    /\ Followed(disc)
    /\ \E x1Diff \in {DiffMatrix(disc.x1, disc.x1, disc.N1, disc.N1)},
          y1Diff \in {DiffMatrix(disc.y1, disc.y1, disc.N1, disc.N1)},
          x1x2Diff \in {DiffMatrix(disc.x1, disc.x2, disc.N1, disc.N2)},
          y1y2Diff \in {DiffMatrix(disc.y1, disc.y2, disc.N1, disc.N2)},
          x2Diff \in {DiffMatrix(disc.x2, disc.x2, disc.N2, disc.N2)},
          y2Diff \in {DiffMatrix(disc.y2, disc.y2, disc.N2, disc.N2)} :
       \E sq1 \in Rational({SquaredNorm(x1Diff, y1Diff)}),
          sq12 \in Rational({SquaredNorm(x1x2Diff, y1y2Diff)}),
          sq2 \in Rational({SquaredNorm(x2Diff, y2Diff)}) :
       \E norm1Diff \in {Sentinel(NormMatrix(sq1))},
          norm12Diff \in {Sentinel(NormMatrix(sq12))},
          norm2Diff \in {Sentinel(NormMatrix(sq2))} :
       \E p1 \in {S1primes(disc.s1prime, norm1Diff)},
          pK \in {Kprimes(disc.kprime, norm12Diff)},
          p2 \in {S2primes(disc.s2prime, norm2Diff)} :
       \E dxS1 \in {Directional(x1Diff, p1, norm1Diff)},
          dyS1 \in {Directional(y1Diff, p1, norm1Diff)},
          dxK \in {Directional(x1x2Diff, pK, norm12Diff)},
          dyK \in {Directional(y1y2Diff, pK, norm12Diff)},
          dxS2 \in {Directional(x2Diff, p2, norm2Diff)},
          dyS2 \in {Directional(y2Diff, p2, norm2Diff)} :
       \E dx1 \in {PredatorVelocity(dxS1, dxK, disc.N1, disc.N2)},
          dy1 \in {PredatorVelocity(dyS1, dyK, disc.N1, disc.N2)} :
       \E x1Moved \in {Euler(disc.x1, disc.dt, dx1)},
          y1Moved \in {Euler(disc.y1, disc.dt, dy1)} :
       \E x1x2Moved \in {DiffMatrix(x1Moved, disc.x2, disc.N1, disc.N2)},
          y1y2Moved \in {DiffMatrix(y1Moved, disc.y2, disc.N1, disc.N2)} :
       \E sq12Moved \in Rational({SquaredNorm(x1x2Moved, y1y2Moved)}) :
       \E norm12Moved \in {Sentinel(NormMatrix(sq12Moved))} :
       \E pKMoved \in {Kprimes(disc.kprime, norm12Moved)} :
       \E dx2 \in {PreyVelocity(dxS2, Directional(x1x2Moved, pKMoved, norm12Moved),
                                disc.alpha, disc.N1, disc.N2)},
          dy2 \in {PreyVelocity(dyS2, Directional(y1y2Moved, pKMoved, norm12Moved),
                                disc.alpha, disc.N1, disc.N2)} :
          disc' = [disc EXCEPT
                !.norm1Diff = norm1Diff, !.norm12Diff = norm12Diff,
                !.norm2Diff = norm2Diff,
                !.dx1 = dx1, !.dy1 = dy1, !.dx2 = dx2, !.dy2 = dy2,
                !.x1 = Euler(disc.x1, disc.dt, dx1),
                !.y1 = Euler(disc.y1, disc.dt, dy1),
                !.x2 = Euler(disc.x2, disc.dt, dx2),
                !.y2 = Euler(disc.y2, disc.dt, dy2),
                !.cnt_sav = IF disc.cnt % disc.sav = 0
                            THEN disc.cnt_sav + 1 ELSE disc.cnt_sav,
                !.cnt = disc.cnt + 1,
                !.n = disc.n + 1]
    /\ UNCHANGED <<solver, pc, cont, obs>>

\* one iteration of "for n,k in enumerate(linspace(0,T,nT+1))" with x2, y2 of
\* N2 rows
StepDiscret ==
    /\ solver = "discrete"
    /\ pc = "loop"
    /\ disc.n < Len(disc.times)
    /\ Len(disc.x2) = disc.N2
    /\ Followed(disc)
    /\ \E x1Diff \in {DiffMatrix(disc.x1, disc.x1, disc.N1, disc.N1)},
          y1Diff \in {DiffMatrix(disc.y1, disc.y1, disc.N1, disc.N1)},
          x1x2Diff \in {DiffMatrix(disc.x1, disc.x2, disc.N1, disc.N2)},
          y1y2Diff \in {DiffMatrix(disc.y1, disc.y2, disc.N1, disc.N2)},
          x2Diff \in {DiffMatrix(disc.x2, disc.x2, disc.N2, disc.N2)},
          y2Diff \in {DiffMatrix(disc.y2, disc.y2, disc.N2, disc.N2)} :
       \E sq1 \in Rational({SquaredNorm(x1Diff, y1Diff)}),
          sq12 \in Rational({SquaredNorm(x1x2Diff, y1y2Diff)}),
          sq2 \in Rational({SquaredNorm(x2Diff, y2Diff)}) :
       \E norm1Diff \in {Sentinel(NormMatrix(sq1))},
          norm12Diff \in {Sentinel(NormMatrix(sq12))},
          norm2Diff \in {Sentinel(NormMatrix(sq2))} :
       \E p1 \in {S1primes(disc.s1prime, norm1Diff)},
          pK \in {Kprimes(disc.kprime, norm12Diff)},
          p2 \in {S2primes(disc.s2prime, norm2Diff)} :
       \E dxS1 \in {Directional(x1Diff, p1, norm1Diff)},
          dyS1 \in {Directional(y1Diff, p1, norm1Diff)},
          dxK \in {Directional(x1x2Diff, pK, norm12Diff)},
          dyK \in {Directional(y1y2Diff, pK, norm12Diff)},
          dxS2 \in {Directional(x2Diff, p2, norm2Diff)},
          dyS2 \in {Directional(y2Diff, p2, norm2Diff)} :
       \E dx1 \in {PredatorVelocity(dxS1, dxK, disc.N1, disc.N2)},
          dy1 \in {PredatorVelocity(dyS1, dyK, disc.N1, disc.N2)},
          dx2 \in {PreyVelocity(dxS2, dxK, disc.alpha, disc.N1, disc.N2)},
          dy2 \in {PreyVelocity(dyS2, dyK, disc.alpha, disc.N1, disc.N2)} :
          disc' = [disc EXCEPT
                !.norm1Diff = norm1Diff, !.norm12Diff = norm12Diff,
                !.norm2Diff = norm2Diff,
                !.dx1 = dx1, !.dy1 = dy1, !.dx2 = dx2, !.dy2 = dy2,
                !.x1 = Euler(disc.x1, disc.dt, dx1),
                !.y1 = Euler(disc.y1, disc.dt, dy1),
                !.x2 = Euler(disc.x2, disc.dt, dx2),
                !.y2 = Euler(disc.y2, disc.dt, dy2),
                !.cnt_sav = IF disc.cnt % disc.sav = 0
                            THEN disc.cnt_sav + 1 ELSE disc.cnt_sav,
                !.cnt = disc.cnt + 1,
                !.n = disc.n + 1]
    /\ UNCHANGED <<solver, pc, cont, obs>>

\* the first iteration with x2, y2 of N1 # N2 rows ends in a ValueError:
\* where the shapes of x1x2Diff do not broadcast, in that line, with only
\* norm1Diff computed; where they do (N1 = 1 or N2 = 1), in
\* "x2 += dt*dx2.reshape(N2,1)", after x1 and y1 have been advanced
StepDiscretFail ==
    /\ solver = "discrete"
    /\ pc = "loop"
    /\ disc.n < Len(disc.times)
    /\ Len(disc.x2) # disc.N2
    /\ Followed(disc)
    /\ \E x1Diff \in {DiffMatrix(disc.x1, disc.x1, disc.N1, disc.N1)},
          y1Diff \in {DiffMatrix(disc.y1, disc.y1, disc.N1, disc.N1)} :
       \E sq1 \in Rational({SquaredNorm(x1Diff, y1Diff)}) :
       \E norm1Diff \in {Sentinel(NormMatrix(sq1))} :
          IF ~DiffShapesFit(disc.x1, disc.x2, disc.N1, disc.N2)
          THEN disc' = [disc EXCEPT !.norm1Diff = norm1Diff]
          ELSE
            \E x1x2Diff \in {DiffMatrix(disc.x1, disc.x2, disc.N1, disc.N2)},
               y1y2Diff \in {DiffMatrix(disc.y1, disc.y2, disc.N1, disc.N2)},
               x2Diff \in {DiffMatrix(disc.x2, disc.x2, disc.N2, disc.N2)},
               y2Diff \in {DiffMatrix(disc.y2, disc.y2, disc.N2, disc.N2)} :
            \E sq12 \in Rational({SquaredNorm(x1x2Diff, y1y2Diff)}),
               sq2 \in Rational({SquaredNorm(x2Diff, y2Diff)}) :
            \E norm12Diff \in {Sentinel(NormMatrix(sq12))},
               norm2Diff \in {Sentinel(NormMatrix(sq2))} :
            \E p1 \in {S1primes(disc.s1prime, norm1Diff)},
               pK \in {Kprimes(disc.kprime, norm12Diff)},
               p2 \in {S2primes(disc.s2prime, norm2Diff)} :
            \E dxS1 \in {Directional(x1Diff, p1, norm1Diff)},
               dyS1 \in {Directional(y1Diff, p1, norm1Diff)},
               dxK \in {Directional(x1x2Diff, pK, norm12Diff)},
               dyK \in {Directional(y1y2Diff, pK, norm12Diff)},
               dxS2 \in {Directional(x2Diff, p2, norm2Diff)},
               dyS2 \in {Directional(y2Diff, p2, norm2Diff)} :
            \E dx1 \in {PredatorVelocity(dxS1, dxK, disc.N1, disc.N2)},
               dy1 \in {PredatorVelocity(dyS1, dyK, disc.N1, disc.N2)},
               dx2 \in {PreyVelocity(dxS2, dxK, disc.alpha, disc.N1, disc.N2)},
               dy2 \in {PreyVelocity(dyS2, dyK, disc.alpha, disc.N1, disc.N2)} :
               disc' = [disc EXCEPT
                     !.norm1Diff = norm1Diff, !.norm12Diff = norm12Diff,
                     !.norm2Diff = norm2Diff,
                     !.dx1 = dx1, !.dy1 = dy1, !.dx2 = dx2, !.dy2 = dy2,
                     !.x1 = Euler(disc.x1, disc.dt, dx1),
                     !.y1 = Euler(disc.y1, disc.dt, dy1)]
    /\ pc' = "error"
    /\ UNCHANGED <<solver, cont, obs>>

\* the loop is exhausted
FinishDiscret ==
    /\ solver = "discrete"
    /\ pc = "loop"
    /\ disc.n = Len(disc.times)
    /\ pc' = "done"
    /\ UNCHANGED <<solver, cont, disc, obs>>

Init == InitContinu \/ InitDiscret

Next ==
    \/ Initialise
    \/ StepContinu
    \/ FinishContinu
    \/ StepDiscret
    \/ StepDiscretFail
    \/ FinishDiscret

Spec == Init /\ [][Next]_vars


(***************************************************************************)
(* Properties of the continuum solver                                      *)
(***************************************************************************)
Running == solver = "continuum" /\ pc \in {"loop", "done"}

NonNeg(v) == \A i \in 1..Len(v) : RLe(RZero, v[i])

\* v read from the other end: index i <-> Nx-1-i
Reverse(v) == [i \in 1..Len(v) |-> v[Len(v) + 1 - i]]

\* C1: in a run of the continuum solver, as long as at no earlier step a
\* density sat in a boundary cell with outward velocity (rho[0]*a_minus[0] = 0
\* and rho[Nx-1]*a_plus[Nx-1] = 0 in every update so far), sum(rho) equals
\* the initial sum; this holds for rho1 and for rho2.
C1_MassConservedWithoutOutflow ==
    Running =>
        /\ ~obs.exited1 => VSum(cont.rho1) = VSum(obs.rho1_0)
        /\ ~obs.exited2 => VSum(cont.rho2) = VSum(obs.rho2_0)

\* two updates without boundary outflow that moved both densities
C1_Witness ==
    /\ Running
    /\ cont.n >= 2
    /\ ~obs.exited1 /\ ~obs.exited2
    /\ cont.rho1 # obs.rho1_0
    /\ cont.rho2 # obs.rho2_0
    /\ cont.rho1_dp # Zeros(cont.Nx)
    /\ cont.rho2_gm # Zeros(cont.Nx)

\* C2 (as stated): sum(rho1) and sum(rho2) equal their initial sums at
\* every step of every run, whatever the initial densities and velocities.
C2_MassAlwaysConserved ==
    Running =>
        /\ VSum(cont.rho1) = VSum(obs.rho1_0)
        /\ VSum(cont.rho2) = VSum(obs.rho2_0)

\* C2 (amended): at every step of every run, whatever the initial densities
\* and velocities, sum(rho) plus the mass that has left through the two
\* boundary cells so far, the accumulated
\* (Dt/Dx)*(a_minus[0]*rho[0] + a_plus[Nx-1]*rho[Nx-1]), equals the initial
\* sum; this holds for rho1 and for rho2.
C2_MassConservedUpToOutflow ==
    Running =>
        /\ RAdd(VSum(cont.rho1), obs.out1) = VSum(obs.rho1_0)
        /\ RAdd(VSum(cont.rho2), obs.out2) = VSum(obs.rho2_0)

\* mass has left through a boundary cell, and the sum has changed by it
C2_Witness ==
    /\ Running
    /\ cont.n >= 2
    /\ obs.exited1
    /\ obs.out1 # RZero
    /\ VSum(cont.rho1) # VSum(obs.rho1_0)

\* C3: an update applied to a non-negative density under the CFL condition
\* (Dt/Dx)*max|a| <= 1 on the velocity of that update gives a non-negative
\* density; hence rho1 and rho2 are non-negative at every step of a run in
\* which the CFL condition held for a1 and a2 at every earlier step.
C3_NonNegativeUnderCFL ==
    /\ [][(/\ solver = "continuum"
           /\ pc = "loop"
           /\ cont'.n = cont.n + 1)
          => /\ (NonNeg(cont.rho1) /\ CFL(cont'.a1, cont.Dt, cont.Dx))
                    => NonNeg(cont'.rho1)
             /\ (NonNeg(cont.rho2) /\ CFL(cont'.a2, cont.Dt, cont.Dx))
                    => NonNeg(cont'.rho2)]_vars
    /\ []((Running /\ obs.cfl) => (NonNeg(cont.rho1) /\ NonNeg(cont.rho2)))

\* two updates under the CFL condition, with non-zero velocities, after
\* which a cell that was empty holds density
C3_Witness ==
    /\ Running
    /\ cont.n >= 2
    /\ obs.cfl
    /\ \E i \in 1..cont.Nx : cont.a1[i] # RZero
    /\ \E i \in 1..cont.Nx : cont.a2[i] # RZero
    /\ \E i \in 1..cont.Nx : obs.rho1_0[i] = RZero /\ cont.rho1[i] # RZero

\* the kernel derivative is odd on the differences of grid points
OddOnGrid(kind, grid) ==
    \A i, l \in 1..Len(grid) :
        Deriv(kind, GridDiff(grid, l, i)) = RNeg(Deriv(kind, GridDiff(grid, i, l)))

\* the kernel derivative vanishes on the differences of grid points
ZeroOnGrid(kind, grid) ==
    \A i, l \in 1..Len(grid) : Deriv(kind, GridDiff(grid, i, l)) = RZero

\* dxW1 = dxW2 odd, dxK = 0, and rho2[i] = rho1[Nx-1-i] at the start
MirrorStart ==
    /\ obs.rho2_0 = Reverse(obs.rho1_0)
    /\ cont.dxW1 = cont.dxW2
    /\ ZeroOnGrid(cont.dxK, cont.grid)
    /\ OddOnGrid(cont.dxW1, cont.grid)

\* C4: with dxW1 = dxW2 odd, dxK identically 0 and rho2[i] = rho1[Nx-1-i]
\* at the start, rho2[i] = rho1[Nx-1-i] holds after every update.
C4_MirrorSymmetryPreserved ==
    (Running /\ MirrorStart) => cont.rho2 = Reverse(cont.rho1)

\* two updates of a mirrored pair of densities that are not symmetric
\* themselves and that have moved
C4_Witness ==
    /\ Running
    /\ MirrorStart
    /\ cont.n >= 2
    /\ cont.rho1 # obs.rho1_0
    /\ cont.rho1 # cont.rho2
    /\ cont.rho1 # Reverse(obs.rho1_0)


(***************************************************************************)
(* Properties of the discrete solver, and of both                          *)
(***************************************************************************)
Renumberings(N) == {f \in [1..N -> 1..N] : \A i, j \in 1..N : f[i] = f[j] => i = j}

\* the reflection about the vertical axis through the centre of the rectangle
\* of Points: x -> 3/10 - x, y -> y
Mirror(x) == RSub(Points[4][1], x)

\* the points (xb, yb) are, up to their numbering, the mirror images of the
\* points (xa, ya)
Mirrored(xa, ya, xb, yb) ==
    /\ Len(xa) = Len(xb)
    /\ \E f \in Renumberings(Len(xa)) :
          \A i \in 1..Len(xa) : xb[i] = Mirror(xa[f[i]]) /\ yb[i] = ya[f[i]]

\* alpha = 1, s1prime = s2prime, N1 = N2, prey initially the mirror image of
\* the predators
MirrorStartDiscret ==
    /\ solver = "discrete"
    /\ disc.alpha = ROne
    /\ disc.s1prime = disc.s2prime
    /\ disc.N1 = disc.N2
    /\ Mirrored(obs.x1_0, obs.y1_0, obs.x2_0, obs.y2_0)

\* C5 (as stated): with alpha = 1, s1prime = s2prime, N1 = N2 and the
\* initial prey set the mirror image of the initial predator set, the prey
\* positions are the mirror image of the predator positions after every
\* Euler step.
C5_MirrorPreserved ==
    MirrorStartDiscret => Mirrored(disc.x1, disc.y1, disc.x2, disc.y2)

\* C5 (amended): with alpha = 1, s1prime = s2prime, kprime identically 0,
\* N1 = N2 and the initial prey set the mirror image of the initial predator
\* set, the prey positions are the mirror image of the predator positions
\* after every Euler step.
C5_MirrorPreservedWithoutCross ==
    (MirrorStartDiscret /\ disc.kprime = "zero")
        => Mirrored(disc.x1, disc.y1, disc.x2, disc.y2)

\* two Euler steps of mirrored sets of two particles that have moved
C5_Witness ==
    /\ MirrorStartDiscret
    /\ disc.kprime = "zero"
    /\ disc.N1 = 2
    /\ disc.n >= 2
    /\ disc.x1 # obs.x1_0
    /\ disc.x2 # obs.x2_0

ZeroRadial(kind) == \A p \in {RZero, <<1, 2>>, ROne} : RadialDeriv(kind, ROne, p) = RZero

\* C6: when every potential derivative is identically 0 (dxW1 = dxW2 = dxK
\* = 0 in the continuum solver, s1prime = s2prime = kprime = 0 in the
\* discrete solver), rho1 and rho2 (x1, y1, x2, y2) equal their initial
\* values after any number of steps.
C6_ZeroInteractionUnchanged ==
    /\ (/\ Running
        /\ ZeroOnGrid(cont.dxW1, cont.grid)
        /\ ZeroOnGrid(cont.dxW2, cont.grid)
        /\ ZeroOnGrid(cont.dxK, cont.grid))
       => (cont.rho1 = obs.rho1_0 /\ cont.rho2 = obs.rho2_0)
    /\ (/\ solver = "discrete"
        /\ ZeroRadial(disc.s1prime)
        /\ ZeroRadial(disc.s2prime)
        /\ ZeroRadial(disc.kprime))
       => /\ disc.x1 = obs.x1_0 /\ disc.y1 = obs.y1_0
          /\ disc.x2 = obs.x2_0 /\ disc.y2 = obs.y2_0

\* a finished run of the continuum solver without interaction, on densities
\* that would move under the notebook's kernels
C6_Witness ==
    /\ solver = "continuum"
    /\ pc = "done"
    /\ cont.n >= 3
    /\ ZeroOnGrid(cont.dxW1, cont.grid)
    /\ ZeroOnGrid(cont.dxW2, cont.grid)
    /\ ZeroOnGrid(cont.dxK, cont.grid)
    /\ cont.Nx >= 3
    /\ cont.rho1_ini # cont.rho2_ini

\* a finished run of the discrete solver without interaction
C6_WitnessDiscret ==
    /\ solver = "discrete"
    /\ pc = "done"
    /\ disc.n >= 3
    /\ ZeroRadial(disc.s1prime) /\ ZeroRadial(disc.s2prime) /\ ZeroRadial(disc.kprime)
    /\ disc.N1 = 2
    /\ obs.x1_0 # obs.x2_0

AllPositive(nm) == \A i \in 1..Len(nm) : \A j \in 1..Len(nm[i]) : RLt(RZero, nm[i][j])
AllFinite(v) == \A i \in 1..Len(v) : IsFinite(v[i])

\* C7: in every step of the discrete solver, whatever the positions
\* (coincident particles and a particle paired with itself included), every
\* entry of norm1Diff, norm12Diff and norm2Diff, the denominators of dxS1,
\* dyS1, dxK, dyK, dxS2, dyS2, is strictly positive after the sentinel
\* substitution, and all positions are finite.
C7_DenominatorsPositive ==
    solver = "discrete" =>
        /\ \A nm \in {disc.norm1Diff, disc.norm12Diff, disc.norm2Diff} :
              nm # Undef => AllPositive(nm)
        /\ AllFinite(disc.x1) /\ AllFinite(disc.y1)
        /\ AllFinite(disc.x2) /\ AllFinite(disc.y2)

\* a step on two coincident predators and a prey at the place of a predator:
\* zero distances off the diagonal, replaced by 1
C7_Witness ==
    /\ solver = "discrete"
    /\ disc.n = 1
    /\ disc.N1 = 2 /\ disc.N2 = 2
    /\ obs.x1_0[1] = obs.x1_0[2] /\ obs.y1_0[1] = obs.y1_0[2]
    /\ obs.x2_0[1] = obs.x1_0[1] /\ obs.y2_0[1] = obs.y1_0[1]
    /\ disc.norm1Diff[1][2] = ROne
    /\ disc.norm12Diff[1][1] = ROne
    /\ disc.s1prime = "step" /\ disc.kprime = "step"

\* C8: a run of the continuum solver makes exactly Nt iterations of the
\* step loop, n = 0..Nt-1, each one applying one update to rho1 and one to
\* rho2 and nothing else following an iteration but the next one or, after
\* iteration Nt-1, the end of the run.
C8_ExactlyNtIterations ==
    /\ []((Running /\ pc = "loop") => cont.n \in 0..cont.Nt)
    /\ []((Running /\ pc = "done") => cont.n = cont.Nt)
    /\ [][(solver = "continuum" /\ pc = "loop")
          => \/ /\ pc' = "loop"
                /\ cont.n < cont.Nt
                /\ cont'.n = cont.n + 1
                /\ cont'.rho1 = Upwind(cont.rho1, cont'.a1p, cont'.a1m,
                                       cont'.rho1_dp, cont'.rho1_gm, cont.Dt, cont.Dx)
                /\ cont'.rho2 = Upwind(cont.rho2, cont'.a2p, cont'.a2m,
                                       cont'.rho2_dp, cont'.rho2_gm, cont.Dt, cont.Dx)
             \/ /\ pc' = "done"
                /\ cont.n = cont.Nt
                /\ cont' = cont]_vars

\* a finished run of more than two iterations that moved the densities
C8_Witness ==
    /\ solver = "continuum"
    /\ pc = "done"
    /\ cont.Nt >= 3
    /\ cont.n = cont.Nt
    /\ cont.rho1 # obs.rho1_0
    /\ cont.rho2 # obs.rho2_0

\* C9 (as stated): the updates of a finished run of the continuum solver
\* advance the densities by the final time: (number of updates) * Dt = tf.
C9_UpdatesReachTf ==
    (solver = "continuum" /\ pc = "done")
        => RMul(RInt(cont.n), cont.Dt) = RInt(cont.tf)

\* C10 (as stated): a finished run of the discrete solver has applied
\* exactly nT = T/dt Euler updates to the positions.
C10_ExactlyNTUpdates ==
    (solver = "discrete" /\ pc = "done") => disc.n = disc.nT

\* C11 (as stated): in the discrete solver, for every N1 >= 1 and N2 >= 1,
\* x1 and y1 hold N1 entries and x2 and y2 hold N2 entries, at initialisation
\* and after every step.
C11_ArraysHoldN1AndN2 ==
    solver = "discrete" =>
        /\ Len(disc.x1) = disc.N1 /\ Len(disc.y1) = disc.N1
        /\ Len(disc.x2) = disc.N2 /\ Len(disc.y2) = disc.N2

(***************************************************************************)
(* The continuum notebook on any configuration: the parameter cell is run  *)
(* on values of xmin, xmax, Nx, Nt, tf that need not make sense, and on    *)
(* initial-condition functions that may vanish on the grid.                *)
(***************************************************************************)
ConfigSizes == -1..2         \* values of Nx and of Nt
ConfigEnds == {xmin, 0, xmax} \* values of xmin and of xmax
ConfigHorizons == {-1, tf}   \* values of tf

\* the values of an initial-condition lambda on a grid of N points
AnyIniArrays(N) == IF N >= 1 THEN [1..N -> IniValues] ELSE {<<>>}

\* the lambdas and the numbers of the parameter cell, before grid, Dx, T and
\* Dt are computed
InitConfig ==
    /\ solver = "continuum"
    /\ pc = "params"
    /\ disc = NoRun
    /\ obs = Undef
    /\ \E Nx \in ConfigSizes, Nt \in ConfigSizes,
          lo \in ConfigEnds, hi \in ConfigEnds, horizon \in ConfigHorizons,
          k1 \in Kernels, k2 \in Kernels, kK \in Kernels :
       \E ini1 \in AnyIniArrays(Nx), ini2 \in AnyIniArrays(Nx) :
          cont = [ dxW1 |-> k1, dxW2 |-> k2, dxK |-> kK,
                   rho1_ini |-> ini1, rho2_ini |-> ini2,
                   xmin |-> lo, xmax |-> hi, Nx |-> Nx,
                   grid |-> Undef, Dx |-> Undef,
                   Nt |-> Nt, tf |-> horizon, T |-> Undef,
                   Dt |-> Undef, beta |-> beta,
                   W1p |-> Undef, W2p |-> Undef, Kp |-> Undef,
                   rho1 |-> Undef, s1 |-> Undef,
                   rho2 |-> Undef, s2 |-> Undef,
                   a1 |-> Undef, rho1_dp |-> Undef, rho1_gm |-> Undef,
                   a2 |-> Undef, rho2_dp |-> Undef, rho2_gm |-> Undef,
                   a1p |-> Undef, a1m |-> Undef,
                   a2p |-> Undef, a2m |-> Undef,
                   cpt |-> Undef, n |-> Undef ]

\* grid = np.linspace(xmin, xmax, Nx); Dx = grid[1]-grid[0];
\* T = np.linspace(0, tf, Nt); Dt = T[1]-T[0].
\* np.linspace raises ValueError on a negative number of samples, and
\* grid[1], T[1] raise IndexError on arrays of fewer than two entries;
\* nothing else in the cell raises
Configure ==
    /\ solver = "continuum"
    /\ pc = "params"
    /\ IF cont.Nx < 0
       THEN pc' = "error" /\ cont' = cont
       ELSE \E grid \in {Linspace(RInt(cont.xmin), RInt(cont.xmax), cont.Nx)} :
            IF Len(grid) < 2
            THEN pc' = "error" /\ cont' = [cont EXCEPT !.grid = grid]
            ELSE IF cont.Nt < 0
            THEN /\ pc' = "error"
                 /\ cont' = [cont EXCEPT !.grid = grid,
                                         !.Dx = RSub(grid[2], grid[1])]
            ELSE \E T \in {Linspace(RZero, RInt(cont.tf), cont.Nt)} :
                 IF Len(T) < 2
                 THEN /\ pc' = "error"
                      /\ cont' = [cont EXCEPT !.grid = grid,
                                              !.Dx = RSub(grid[2], grid[1]),
                                              !.T = T]
                 ELSE /\ pc' = "init"
                      /\ cont' = [cont EXCEPT !.grid = grid,
                                              !.Dx = RSub(grid[2], grid[1]),
                                              !.T = T,
                                              !.Dt = RSub(T[2], T[1])]
    /\ UNCHANGED <<solver, disc, obs>>

NextConfig ==
    \/ Configure
    \/ Initialise
    \/ StepContinu
    \/ FinishContinu

SpecConfig == InitConfig /\ [][NextConfig]_vars

\* non-positive Nx or Nt, xmin >= xmax, or a negative final time
InvalidConfig ==
    \/ cont.Nx <= 0
    \/ cont.Nt <= 0
    \/ cont.xmin >= cont.xmax
    \/ cont.tf < 0

\* C12 (as stated): a run of the continuum solver on a configuration with
\* non-positive Nx or Nt, with xmin >= xmax or with a negative final time
\* never reaches the step loop: no density update is executed on it.
C12_InvalidConfigFailsFast ==
    (solver = "continuum" /\ InvalidConfig)
        => ~(pc \in {"loop", "done"} /\ cont.n >= 1)

\* C13 (as stated): after initialisation and before the first step, for
\* every grid and every initial-condition function, rho1 and rho2 are each
\* elementwise non-negative and each sums to 1.
C13_NormalisedAfterInit ==
    (solver = "continuum" /\ pc = "loop" /\ cont.n = 0)
        => /\ NonNeg(cont.rho1) /\ VSum(cont.rho1) = ROne
           /\ NonNeg(cont.rho2) /\ VSum(cont.rho2) = ROne

\* C14: a run of the continuum solver in which the CFL condition is violated
\* is not detected: it enters no error state, and when it ends it has made
\* all Nt updates; from non-negative initial densities such a run reaches a
\* state with a negative density entry (the state of C14_Witness).
C14_CFLViolationUndetected ==
    solver = "continuum" =>
        /\ pc \in {"init", "loop", "done"}
        /\ (pc = "done" /\ ~obs.cfl) => cont.n = cont.Nt

\* a finished run from non-negative initial densities, in which the CFL
\* condition was violated, with a negative density entry after all Nt updates
C14_Witness ==
    /\ solver = "continuum"
    /\ pc = "done"
    /\ ~obs.cfl
    /\ cont.n = cont.Nt
    /\ NonNeg(obs.rho1_0) /\ NonNeg(obs.rho2_0)
    /\ \E i \in 1..cont.Nx : RLt(cont.rho1[i], RZero) \/ RLt(cont.rho2[i], RZero)

\* entry i of v, and 0 for an index outside the domain
Inside(v, i) == IF i \in 1..Len(v) THEN v[i] ELSE RZero

\* F_{i+1/2} = a_plus[i]*rho[i] - a_minus[i+1]*rho[i+1]
Flux(rho, ap, am, i) ==
    RSub(RMul(Inside(ap, i), Inside(rho, i)),
         RMul(Inside(am, i + 1), Inside(rho, i + 1)))

\* rho_i - (Dt/Dx)*(F_{i+1/2} - F_{i-1/2}) for every cell i
UpwindRule(rho, ap, am, Dt, Dx) ==
    [i \in 1..Len(rho) |->
        RSub(rho[i], RMul(RDiv(Dt, Dx),
                          RSub(Flux(rho, ap, am, i), Flux(rho, ap, am, i - 1))))]

\* C15: every step of the continuum solver updates every cell i of rho1 and
\* of rho2 by rho_i' = rho_i - (Dt/Dx)*(F_{i+1/2} - F_{i-1/2}) with
\* F_{i+1/2} = a_plus[i]*rho[i] - a_minus[i+1]*rho[i+1] taken with the
\* population's own velocity, and the terms from outside the domain (entry 0
\* of rho_dp, entry Nx-1 of rho_gm) are 0 in every step.
C15_UpwindRule ==
    /\ [](Running => /\ cont.rho1_dp[1] = RZero /\ cont.rho1_gm[cont.Nx] = RZero
                     /\ cont.rho2_dp[1] = RZero /\ cont.rho2_gm[cont.Nx] = RZero)
    /\ [][(solver = "continuum" /\ pc = "loop" /\ cont'.n = cont.n + 1)
          => /\ cont'.rho1 = UpwindRule(cont.rho1, cont'.a1p, cont'.a1m, cont.Dt, cont.Dx)
             /\ cont'.rho2 = UpwindRule(cont.rho2, cont'.a2p, cont'.a2m, cont.Dt, cont.Dx)]_vars

\* two steps on at least three cells with flux in both directions for both
\* populations, and with outflow through a boundary cell
C15_Witness ==
    /\ Running
    /\ cont.n >= 2
    /\ cont.Nx >= 3
    /\ cont.rho1_dp # Zeros(cont.Nx) /\ cont.rho1_gm # Zeros(cont.Nx)
    /\ cont.rho2_dp # Zeros(cont.Nx) /\ cont.rho2_gm # Zeros(cont.Nx)
    /\ obs.exited1 \/ obs.exited2

\* sum(rho) - (Dt/Dx)*(a_minus[0]*rho[0] + a_plus[Nx-1]*rho[Nx-1])
SumLessOutflow(rho, ap, am, Dt, Dx) ==
    RSub(VSum(rho),
         RMul(RDiv(Dt, Dx),
              RAdd(RMul(am[1], rho[1]), RMul(ap[Len(rho)], rho[Len(rho)]))))

\* a <= b for finite a, b, by the sign of b - a
NotAbove(a, b) == IsFinite(a) /\ IsFinite(b) /\ RSub(b, a)[1] >= 0

\* C16: in every step of the continuum solver and for each population,
\* sum(rho') = sum(rho) - (Dt/Dx)*(a_minus[0]*rho[0] + a_plus[Nx-1]*rho[Nx-1]):
\* nothing enters from outside and mass leaves only through the two boundary
\* cells; so a step on a non-negative density does not increase its sum.
C16_BoundaryBalance ==
    [][(solver = "continuum" /\ pc = "loop" /\ cont'.n = cont.n + 1)
       => /\ VSum(cont'.rho1)
               = SumLessOutflow(cont.rho1, cont'.a1p, cont'.a1m, cont.Dt, cont.Dx)
          /\ VSum(cont'.rho2)
               = SumLessOutflow(cont.rho2, cont'.a2p, cont'.a2m, cont.Dt, cont.Dx)
          /\ NonNeg(cont.rho1) => NotAbove(VSum(cont'.rho1), VSum(cont.rho1))
          /\ NonNeg(cont.rho2) => NotAbove(VSum(cont'.rho2), VSum(cont.rho2))]_vars

\* prey mass has left through a boundary cell of a non-negative density while
\* no predator mass has left
C16_Witness ==
    /\ Running
    /\ cont.n >= 1
    /\ obs.exited2 /\ ~obs.exited1
    /\ NonNeg(cont.rho2)
    /\ RLt(VSum(cont.rho2), VSum(obs.rho2_0))
    /\ VSum(cont.rho1) = VSum(obs.rho1_0)

\* sum over l = 1..k of rho[l]*dxW(x_i - x_l)
RECURSIVE KernelSum(_, _, _, _, _)
KernelSum(kind, grid, rho, i, k) ==
    IF k = 0 THEN RZero
    ELSE RAdd(KernelSum(kind, grid, rho, i, k - 1),
              RMul(rho[k], Deriv(kind, RSub(grid[i], grid[k]))))

\* C17: in every step of the continuum solver and for every grid index i,
\* a1[i] = -(sum_l rho1[l]*dxW1(x_i - x_l) + sum_l rho2[l]*dxK(x_i - x_l)) and
\* a2[i] = -(sum_l rho2[l]*dxW2(x_i - x_l) - beta*sum_l rho1[l]*dxK(x_i - x_l)),
\* entry (i, l) of W1p, W2p, Kp being the derivative at x_i - x_l.
C17_VelocityFormula ==
    /\ [](Running =>
            \A i, l \in 1..cont.Nx :
                /\ cont.W1p[i][l] = Deriv(cont.dxW1, RSub(cont.grid[i], cont.grid[l]))
                /\ cont.W2p[i][l] = Deriv(cont.dxW2, RSub(cont.grid[i], cont.grid[l]))
                /\ cont.Kp[i][l] = Deriv(cont.dxK, RSub(cont.grid[i], cont.grid[l])))
    /\ [][(solver = "continuum" /\ pc = "loop" /\ cont'.n = cont.n + 1)
          => \A i \in 1..cont.Nx :
                /\ cont'.a1[i] =
                     RNeg(RAdd(KernelSum(cont.dxW1, cont.grid, cont.rho1, i, cont.Nx),
                               KernelSum(cont.dxK, cont.grid, cont.rho2, i, cont.Nx)))
                /\ cont'.a2[i] =
                     RNeg(RSub(KernelSum(cont.dxW2, cont.grid, cont.rho2, i, cont.Nx),
                               RMul(cont.beta,
                                    KernelSum(cont.dxK, cont.grid, cont.rho1, i, cont.Nx))))]_vars

\* a step with all three kernels of the notebook on at least three cells,
\* with non-zero velocities of both populations
C17_Witness ==
    /\ Running
    /\ cont.n >= 1
    /\ cont.Nx >= 3
    /\ cont.dxW1 = "sign" /\ cont.dxW2 = "sign" /\ cont.dxK = "sign"
    /\ \E i \in 1..cont.Nx : cont.a1[i] # RZero
    /\ \E i \in 1..cont.Nx : cont.a2[i] # RZero
    /\ cont.rho1_ini # cont.rho2_ini

\* C18: in step n of the continuum solver both a1 and a2 are computed from
\* the densities (rho1, rho2) of the start of the step, before either is
\* modified, and each density is updated with the velocity so computed; the
\* densities change in steps only, so the velocities of step n+1 are computed
\* from the pair that step n has fully updated.
C18_VelocitiesFromStartOfStep ==
    [][(solver = "continuum" /\ pc = "loop")
       => IF cont'.n = cont.n + 1
          THEN /\ cont'.a1 = Velocity1(cont.W1p, cont.Kp, cont.rho1, cont.rho2)
               /\ cont'.a2 = Velocity2(cont.W2p, cont.Kp, cont.beta, cont.rho1, cont.rho2)
               /\ cont'.rho1 = UpwindRule(cont.rho1, PosPart(cont'.a1), NegPart(cont'.a1),
                                          cont.Dt, cont.Dx)
               /\ cont'.rho2 = UpwindRule(cont.rho2, PosPart(cont'.a2), NegPart(cont'.a2),
                                          cont.Dt, cont.Dx)
          ELSE cont'.rho1 = cont.rho1 /\ cont'.rho2 = cont.rho2]_vars

\* two steps with cross-interaction after which the velocities that the
\* updated densities give differ from the ones the step used
C18_Witness ==
    /\ Running
    /\ cont.n >= 2
    /\ cont.dxK = "sign"
    /\ cont.rho1 # obs.rho1_0
    /\ cont.a2 # Velocity2(cont.W2p, cont.Kp, cont.beta, cont.rho1, cont.rho2)
    /\ cont.a1 # Velocity1(cont.W1p, cont.Kp, cont.rho1, cont.rho2)

\* max(a, 0), by the sign of the numerator
MaxWithZero(a) == IF a[1] > 0 THEN a ELSE RZero

\* the parts ap, am of the velocity a are max(a,0) and max(-a,0) entry by
\* entry: both >= 0, a = ap - am, at most one non-zero, both 0 at a = 0
IsSplit(a, ap, am) ==
    \A i \in 1..Len(a) :
        /\ ap[i] = MaxWithZero(a[i])
        /\ am[i] = MaxWithZero(RNeg(a[i]))
        /\ ap[i][1] >= 0 /\ am[i][1] >= 0
        /\ a[i] = RSub(ap[i], am[i])
        /\ ap[i] = RZero \/ am[i] = RZero
        /\ a[i] = RZero => (ap[i] = RZero /\ am[i] = RZero)

\* C19: for every entry a of the velocities a1 and a2 that a step of the
\* continuum solver computes, the positive part is max(a,0) and the negative
\* part is max(-a,0): both are >= 0, a = a_plus - a_minus, at most one is
\* non-zero, and both are 0 at a = 0.
C19_VelocitySplit ==
    (Running /\ cont.n >= 1)
        => /\ IsSplit(cont.a1, cont.a1p, cont.a1m)
           /\ IsSplit(cont.a2, cont.a2p, cont.a2m)

\* a step whose velocity a1 has a positive, a negative and a zero entry
C19_Witness ==
    /\ Running
    /\ cont.n >= 1
    /\ \E i, j, k \in 1..cont.Nx :
          /\ cont.a1[i][1] > 0 /\ cont.a1[j][1] < 0 /\ cont.a1[k] = RZero
          /\ cont.a1p[i] = cont.a1[i]
          /\ cont.a1m[j] = RNeg(cont.a1[j])

\* what a step of the continuum solver assigns: the densities, the velocity
\* and flux temporaries, and the counters of the loop and of the snapshots
StepAssigns ==
    {"rho1", "rho2", "a1", "a2", "a1p", "a1m", "a2p", "a2m",
     "rho1_dp", "rho1_gm", "rho2_dp", "rho2_gm", "cpt", "n"}

\* C20: the grid and the interaction matrices W1p, W2p, Kp are built once
\* before the loop of the continuum solver, as the kernel derivatives on the
\* differences of grid points, and no step changes them: a step changes
\* nothing but rho1, rho2, the velocity and flux temporaries and the loop's
\* counters.
C20_GridAndMatricesFixed ==
    /\ [](Running => /\ cont.grid = Linspace(RInt(cont.xmin), RInt(cont.xmax), cont.Nx)
                     /\ \A i, l \in 1..cont.Nx :
                           /\ cont.W1p[i][l] = Deriv(cont.dxW1, GridDiff(cont.grid, i, l))
                           /\ cont.W2p[i][l] = Deriv(cont.dxW2, GridDiff(cont.grid, i, l))
                           /\ cont.Kp[i][l] = Deriv(cont.dxK, GridDiff(cont.grid, i, l)))
    /\ [][(solver = "continuum" /\ pc = "loop")
          => \A f \in (DOMAIN cont) \ StepAssigns : cont'[f] = cont[f]]_vars

\* a finished run of three steps with the notebook's kernels that changed
\* the densities and the temporaries
C20_Witness ==
    /\ solver = "continuum"
    /\ pc = "done"
    /\ cont.n = 3
    /\ cont.dxW1 = "sign" /\ cont.dxK = "sign"
    /\ cont.rho1 # obs.rho1_0 /\ cont.rho2 # obs.rho2_0
    /\ cont.a1 # Zeros(cont.Nx) /\ cont.rho1_dp # Zeros(cont.Nx)
    /\ cont.Kp = KernelMatrix(cont.dxK, cont.grid)

\* a whole iteration of the discrete loop has been executed
DiscretStepped == solver = "discrete" /\ pc = "loop" /\ disc'.n = disc.n + 1

\* the component along zc of grad P(z) = (z/|z|)*p'(|z|) for z = (zx, zy) # 0,
\* and 0 for z = 0, for the radial derivative p' of the given kind and size
Grad(kind, c, zx, zy, zc) ==
    LET sq == RAdd(RMul(zx, zx), RMul(zy, zy))
    IN  IF sq = RZero THEN RZero
        ELSE RMul(RDiv(zc, Sqrt(sq)), RadialDeriv(kind, c, Sqrt(sq)))

\* sum over h = 1..k of the x component (c = 1) or the y component (c = 2)
\* of grad P((px, py) - (qx[h], qy[h]))
RECURSIVE GradSum(_, _, _, _, _, _, _, _)
GradSum(kind, c, px, py, qx, qy, k, comp) ==
    IF k = 0 THEN RZero
    ELSE RAdd(GradSum(kind, c, px, py, qx, qy, k - 1, comp),
              Grad(kind, c, RSub(px, qx[k]), RSub(py, qy[k]),
                   IF comp = 1 THEN RSub(px, qx[k]) ELSE RSub(py, qy[k])))

\* -(1/N1)*sum_k gradS1(x_i - x_k) - (1/N2)*sum_h gradK(x_i - y_h)
PredatorLaw(d, i, comp) ==
    RSub(RNeg(RDiv(GradSum(d.s1prime, sMagnitude, d.x1[i], d.y1[i], d.x1, d.y1, d.N1, comp),
                   RInt(d.N1))),
         RDiv(GradSum(d.kprime, kMagnitude, d.x1[i], d.y1[i], d.x2, d.y2, d.N2, comp),
              RInt(d.N2)))

\* -(1/N2)*sum_h gradS2(y_j - y_h) + (alpha/N1)*sum_k gradK(y_j - x_k)
PreyLaw(d, j, comp) ==
    RAdd(RNeg(RDiv(GradSum(d.s2prime, sMagnitude, d.x2[j], d.y2[j], d.x2, d.y2, d.N2, comp),
                   RInt(d.N2))),
         RDiv(RMul(d.alpha, GradSum(d.kprime, kMagnitude, d.x2[j], d.y2[j], d.x1, d.y1, d.N1, comp)),
              RInt(d.N1)))

\* C21: in every step of the discrete solver the velocity of predator i is
\* -(1/N1)*sum_k gradS1(x_i - x_k) - (1/N2)*sum_h gradK(x_i - y_h) and the
\* velocity of prey j is -(1/N2)*sum_h gradS2(y_j - y_h)
\* + (alpha/N1)*sum_k gradK(y_j - x_k), with grad P(z) = (z/|z|)*p'(|z|) for
\* z # 0 and 0 for z = 0.
C21_VelocityLaw ==
    [][DiscretStepped =>
         /\ \A i \in 1..disc.N1 : /\ disc'.dx1[i] = PredatorLaw(disc, i, 1)
                                  /\ disc'.dy1[i] = PredatorLaw(disc, i, 2)
         /\ \A j \in 1..disc.N2 : /\ disc'.dx2[j] = PreyLaw(disc, j, 1)
                                  /\ disc'.dy2[j] = PreyLaw(disc, j, 2)]_vars

\* a step of two predators and two prey, all at different places, with the
\* notebook's derivatives, that moved a predator and a prey along both axes
C21_Witness ==
    /\ solver = "discrete"
    /\ disc.n = 1
    /\ disc.N1 = 2 /\ disc.N2 = 2
    /\ disc.s1prime = "step" /\ disc.s2prime = "step" /\ disc.kprime = "step"
    /\ \A i, j \in 1..2 : <<obs.x1_0[i], obs.y1_0[i]>> # <<obs.x2_0[j], obs.y2_0[j]>>
    /\ <<obs.x1_0[1], obs.y1_0[1]>> # <<obs.x1_0[2], obs.y1_0[2]>>
    /\ <<obs.x2_0[1], obs.y2_0[1]>> # <<obs.x2_0[2], obs.y2_0[2]>>
    /\ \E i \in 1..2 : disc.dx1[i] # RZero /\ disc.dy1[i] # RZero
    /\ \E j \in 1..2 : disc.dx2[j] # RZero /\ disc.dy2[j] # RZero

\* C22: each step of the discrete solver is one explicit Euler update: the
\* four velocity arrays dx1, dy1, dx2, dy2 are all computed from the positions
\* at the start of the step, and then every coordinate of every particle of
\* both species is advanced by dt times its velocity; no update uses a
\* position already advanced in the same step.
C22_EulerFromStartOfStep ==
    [][DiscretStepped =>
         /\ \A i \in 1..disc.N1 :
               /\ disc'.x1[i] = RAdd(disc.x1[i], RMul(disc.dt, PredatorLaw(disc, i, 1)))
               /\ disc'.y1[i] = RAdd(disc.y1[i], RMul(disc.dt, PredatorLaw(disc, i, 2)))
         /\ \A j \in 1..disc.N2 :
               /\ disc'.x2[j] = RAdd(disc.x2[j], RMul(disc.dt, PreyLaw(disc, j, 1)))
               /\ disc'.y2[j] = RAdd(disc.y2[j], RMul(disc.dt, PreyLaw(disc, j, 2)))
         /\ disc'.x1 = Euler(disc.x1, disc.dt, disc'.dx1)
         /\ disc'.y1 = Euler(disc.y1, disc.dt, disc'.dy1)
         /\ disc'.x2 = Euler(disc.x2, disc.dt, disc'.dx2)
         /\ disc'.y2 = Euler(disc.y2, disc.dt, disc'.dy2)]_vars

\* a step in which a predator and a prey both moved, the prey by a velocity
\* that depends on where the predator is
C22_Witness ==
    /\ solver = "discrete"
    /\ disc.n >= 1
    /\ disc.kprime = "step"
    /\ \E i \in 1..disc.N1 : disc.x1[i] # obs.x1_0[i]
    /\ \E j \in 1..disc.N2 : disc.x2[j] # obs.x2_0[j]

\* the distance of (px, py) and (qx, qy), where it is rational
Distance(px, py, qx, qy) ==
    Sqrt(RAdd(RMul(RSub(px, qx), RSub(px, qx)), RMul(RSub(py, qy), RSub(py, qy))))

\* nm holds the distances of the points (ux[i], uy[i]) and (vx[j], vy[j]),
\* with 1 in place of every distance 0
Substituted(nm, ux, uy, vx, vy) ==
    \A i \in 1..Len(ux) : \A j \in 1..Len(vx) :
        LET r == Distance(ux[i], uy[i], vx[j], vy[j])
        IN  nm[i][j] = IF r = RZero THEN ROne ELSE r

\* the directional terms computed with the substituted distances nm and the
\* derivatives primes evaluated on them are the reference values: 0 at true
\* distance 0, diff * p'(r) / r with the true r elsewhere
AsReference(nm, primes, kind, c, ux, uy, vx, vy) ==
    \A i \in 1..Len(ux) : \A j \in 1..Len(vx) :
        LET r == Distance(ux[i], uy[i], vx[j], vy[j])
            xd == DiffMatrix(ux, vx, Len(ux), Len(vx))
            yd == DiffMatrix(uy, vy, Len(uy), Len(vy))
        IN  /\ Directional(xd, primes, nm)[i][j] =
                  IF r = RZero THEN RZero
                  ELSE RDiv(RMul(xd[i][j], RadialDeriv(kind, c, r)), r)
            /\ Directional(yd, primes, nm)[i][j] =
                  IF r = RZero THEN RZero
                  ELSE RDiv(RMul(yd[i][j], RadialDeriv(kind, c, r)), r)

\* C23: in each of the three distance matrices of a step of the discrete
\* solver every entry 0 is replaced by 1 and every positive entry is kept,
\* and the directional terms computed with the substituted distances are, for
\* every pair, 0 where the true distance is 0 and diff * p'(r) / r with the
\* true r elsewhere: the substitution changes no velocity.
C23_SentinelChangesNothing ==
    [][DiscretStepped =>
         /\ Substituted(disc'.norm1Diff, disc.x1, disc.y1, disc.x1, disc.y1)
         /\ Substituted(disc'.norm12Diff, disc.x1, disc.y1, disc.x2, disc.y2)
         /\ Substituted(disc'.norm2Diff, disc.x2, disc.y2, disc.x2, disc.y2)
         /\ AsReference(disc'.norm1Diff, S1primes(disc.s1prime, disc'.norm1Diff),
                        disc.s1prime, sMagnitude, disc.x1, disc.y1, disc.x1, disc.y1)
         /\ AsReference(disc'.norm12Diff, Kprimes(disc.kprime, disc'.norm12Diff),
                        disc.kprime, kMagnitude, disc.x1, disc.y1, disc.x2, disc.y2)
         /\ AsReference(disc'.norm2Diff, S2primes(disc.s2prime, disc'.norm2Diff),
                        disc.s2prime, sMagnitude, disc.x2, disc.y2, disc.x2, disc.y2)]_vars

\* the first step of two predators and two prey with the notebook's
\* derivatives, where a predator is at the place of a prey and away from the
\* other one: the matrix of the cross distances holds a substituted entry and
\* a true distance
C23_Witness ==
    /\ solver = "discrete"
    /\ disc.n = 1
    /\ disc.N1 = 2 /\ disc.N2 = 2
    /\ disc.s1prime = "step" /\ disc.s2prime = "step" /\ disc.kprime = "step"
    /\ \E i, j, h \in 1..2 :
          /\ <<obs.x1_0[i], obs.y1_0[i]>> = <<obs.x2_0[j], obs.y2_0[j]>>
          /\ <<obs.x1_0[i], obs.y1_0[i]>> # <<obs.x2_0[h], obs.y2_0[h]>>
          /\ disc.norm12Diff[i][j] = ROne
          /\ disc.norm12Diff[i][h] # ROne
    /\ disc.dx1 # Zeros(2)

\* the points (ux[i], uy[i]) and (vx[j], vy[j]) at distance 0 have the
\* derivative of the given kind and size, evaluated on the entry of nm that
\* the step uses for them, equal to 0
ZeroAtCoincident(nm, kind, c, ux, uy, vx, vy) ==
    \A i \in 1..Len(ux) : \A j \in 1..Len(vx) :
        (ux[i] = vx[j] /\ uy[i] = vy[j]) => RadialDeriv(kind, c, nm[i][j]) = RZero

\* C24: for every pair of particles at distance exactly 0, the derivative
\* (s1prime, s2prime or kprime) that the step of the discrete solver evaluates
\* for the pair, in the numerator of its directional term, is 0: the r = 0
\* branch is the one used for coincident pairs. Stated after the first step,
\* whose pairs are those of the initial positions.
C24_ZeroBranchUsed ==
    (solver = "discrete" /\ pc = "loop" /\ disc.n = 1) =>
        /\ ZeroAtCoincident(disc.norm1Diff, disc.s1prime, sMagnitude,
                            obs.x1_0, obs.y1_0, obs.x1_0, obs.y1_0)
        /\ ZeroAtCoincident(disc.norm12Diff, disc.kprime, kMagnitude,
                            obs.x1_0, obs.y1_0, obs.x2_0, obs.y2_0)
        /\ ZeroAtCoincident(disc.norm2Diff, disc.s2prime, sMagnitude,
                            obs.x2_0, obs.y2_0, obs.x2_0, obs.y2_0)

\* ---------------------------------------------------------------------------
\* The continuum notebook with its own kernels (np.sign for dxW1, dxW2, dxK)
\* and beta = 0.3, on indicator initial functions of mass 1 after
\* normalisation. The notebook has Nx = 256 and Nt = 1000, hence
\* Dt/Dx = (Nx-1)/(Nt-1) = 255/999, below 1/2; the grids here have the numbers
\* of time points for which Dt/Dx is 1/2 or 1/4.
\* ---------------------------------------------------------------------------

ReferenceNts(Nx) == {2 * Nx - 1, 4 * Nx - 3}

InitReference ==
    /\ solver = "continuum"
    /\ pc = "init"
    /\ disc = NoRun
    /\ obs = Undef
    /\ \E Nx \in 2..MaxNx :
       \E Nt \in ReferenceNts(Nx), ini1 \in IniArrays(Nx), ini2 \in IniArrays(Nx) :
          LET grid == Linspace(RInt(xmin), RInt(xmax), Nx)
              T    == Linspace(RZero, RInt(tf), Nt)
          IN  cont = [ dxW1 |-> "sign", dxW2 |-> "sign", dxK |-> "sign",
                       rho1_ini |-> ini1, rho2_ini |-> ini2,
                       xmin |-> xmin, xmax |-> xmax, Nx |-> Nx,
                       grid |-> grid, Dx |-> RSub(grid[2], grid[1]),
                       Nt |-> Nt, tf |-> tf, T |-> T,
                       Dt |-> RSub(T[2], T[1]), beta |-> beta,
                       W1p |-> Undef, W2p |-> Undef, Kp |-> Undef,
                       rho1 |-> Undef, s1 |-> Undef,
                       rho2 |-> Undef, s2 |-> Undef,
                       a1 |-> Undef, rho1_dp |-> Undef, rho1_gm |-> Undef,
                       a2 |-> Undef, rho2_dp |-> Undef, rho2_gm |-> Undef,
                       a1p |-> Undef, a1m |-> Undef,
                       a2p |-> Undef, a2m |-> Undef,
                       cpt |-> Undef, n |-> Undef ]

NextReference == Initialise \/ StepContinu \/ FinishContinu

SpecReference == InitReference /\ [][NextReference]_vars

\* every entry of a is at most b in absolute value
BoundedBy(a, b) == \A i \in 1..Len(a) : NotAbove(RAbs(a[i]), b)

\* C25: the continuum solver with sign kernels, beta = 0.3, Dt/Dx at most
\* 1/2 (255/999 in the notebook) and initial masses 1: in every reachable
\* state rho1 and rho2 are non-negative with sums at most 1; in every step
\* |a1[i]| <= sum(rho1) + sum(rho2) <= 2 and
\* |a2[i]| <= sum(rho2) + beta*sum(rho1) <= 1.3 for every i, and the CFL
\* condition (Dt/Dx)*max|a| <= 1 holds.
C25_ReferenceStaysUnderCFL ==
    /\ [](Running => /\ NonNeg(cont.rho1) /\ NotAbove(VSum(cont.rho1), ROne)
                     /\ NonNeg(cont.rho2) /\ NotAbove(VSum(cont.rho2), ROne)
                     /\ obs.cfl)
    /\ [][(solver = "continuum" /\ pc = "loop" /\ cont'.n = cont.n + 1)
          => /\ BoundedBy(cont'.a1, RAdd(VSum(cont.rho1), VSum(cont.rho2)))
             /\ NotAbove(RAdd(VSum(cont.rho1), VSum(cont.rho2)), RInt(2))
             /\ BoundedBy(cont'.a2, RAdd(VSum(cont.rho2), RMul(cont.beta, VSum(cont.rho1))))
             /\ NotAbove(RAdd(VSum(cont.rho2), RMul(cont.beta, VSum(cont.rho1))),
                         <<13, 10>>)
             /\ CFL(cont'.a1, cont.Dt, cont.Dx)
             /\ CFL(cont'.a2, cont.Dt, cont.Dx)]_vars

\* two steps with Dt/Dx = 1/2 in which both populations moved, prey have left
\* the domain, and the last velocities are not zero
C25_Witness ==
    /\ Running
    /\ cont.n >= 2
    /\ RDiv(cont.Dt, cont.Dx) = <<1, 2>>
    /\ cont.rho1 # obs.rho1_0 /\ cont.rho2 # obs.rho2_0
    /\ RLt(VSum(cont.rho2), ROne)
    /\ \E i \in 1..cont.Nx : cont.a1[i] # RZero
    /\ \E i \in 1..cont.Nx : cont.a2[i] # RZero

\* particles i and k of the arrays x, y are at the same place
Coincide(x, y, i, k) == x[i] = x[k] /\ y[i] = y[k]

\* C26: two particles of the same species at exactly the same position at the
\* start of a step of the discrete solver receive identical velocities in
\* that step and are at the same position after it; once coincident, two
\* particles of the same species stay coincident for the rest of the run.
C26_CoincidentStayCoincident ==
    /\ [][DiscretStepped =>
            /\ \A i, k \in 1..disc.N1 :
                  Coincide(disc.x1, disc.y1, i, k) =>
                      /\ disc'.dx1[i] = disc'.dx1[k] /\ disc'.dy1[i] = disc'.dy1[k]
                      /\ Coincide(disc'.x1, disc'.y1, i, k)
            /\ \A j, h \in 1..disc.N2 :
                  Coincide(disc.x2, disc.y2, j, h) =>
                      /\ disc'.dx2[j] = disc'.dx2[h] /\ disc'.dy2[j] = disc'.dy2[h]
                      /\ Coincide(disc'.x2, disc'.y2, j, h)]_vars
    /\ [](solver = "discrete" =>
            /\ \A i, k \in 1..Len(disc.x1) :
                  Coincide(obs.x1_0, obs.y1_0, i, k) => Coincide(disc.x1, disc.y1, i, k)
            /\ \A j, h \in 1..Len(disc.x2) :
                  Coincide(obs.x2_0, obs.y2_0, j, h) => Coincide(disc.x2, disc.y2, j, h))

\* two predators that started at the same place, with two prey at different
\* distances from them, have moved together, along both axes
C26_Witness ==
    /\ solver = "discrete"
    /\ disc.n >= 1
    /\ disc.N1 = 2 /\ disc.N2 = 2
    /\ Coincide(obs.x1_0, obs.y1_0, 1, 2)
    /\ ~Coincide(obs.x2_0, obs.y2_0, 1, 2)
    /\ disc.dx1[1] # RZero /\ disc.dy1[1] # RZero
    /\ disc.x1[1] # obs.x1_0[1] /\ disc.y1[1] # obs.y1_0[1]
    /\ Coincide(disc.x1, disc.y1, 1, 2)

\* the R x C matrix of zeros
ZeroMatrix(R, C) == [i \in 1..R |-> Zeros(C)]

\* the cross term dxK (comp = 1) or dyK (comp = 2) of the positions of d with
\* the substituted distances nm
CrossTerm(d, nm, comp) ==
    Directional(IF comp = 1 THEN DiffMatrix(d.x1, d.x2, d.N1, d.N2)
                ELSE DiffMatrix(d.y1, d.y2, d.N1, d.N2),
                Kprimes(d.kprime, nm), nm)

\* the matrix dK with every entry but (i, j) set to 0
PairTerm(dK, i, j) ==
    [a \in 1..Len(dK) |-> [b \in 1..Len(dK[a]) |->
        IF a = i /\ b = j THEN dK[a][b] ELSE RZero]]

\* what the pair of predator i and prey j adds to the velocity of predator i
\* and to the velocity of prey j
ToPredator(d, dK, i, j) ==
    PredatorVelocity(ZeroMatrix(d.N1, d.N1), PairTerm(dK, i, j), d.N1, d.N2)[i]
ToPrey(d, dK, i, j) ==
    PreyVelocity(ZeroMatrix(d.N2, d.N2), PairTerm(dK, i, j), d.alpha, d.N1, d.N2)[j]

RECURSIVE ToPredatorSum(_, _, _, _)
ToPredatorSum(d, dK, i, k) ==
    IF k = 0 THEN RZero
    ELSE RAdd(ToPredatorSum(d, dK, i, k - 1), ToPredator(d, dK, i, k))

RECURSIVE ToPreySum(_, _, _, _)
ToPreySum(d, dK, j, k) ==
    IF k = 0 THEN RZero
    ELSE RAdd(ToPreySum(d, dK, j, k - 1), ToPrey(d, dK, k, j))

\* the velocity of a particle that comes from its own species
SelfTerm(kind, x, y, i, N, comp) ==
    RNeg(RDiv(GradSum(kind, sMagnitude, x[i], y[i], x, y, N, comp), RInt(N)))

\* (cx, cy) is a positive multiple of (vx, vy)
PositiveMultiple(cx, cy, vx, vy) ==
    /\ RMul(cx, vy) = RMul(cy, vx)
    /\ RLt(RZero, RAdd(RMul(cx, vx), RMul(cy, vy)))

\* C27: in a step of the discrete solver with kprime(r) > 0 for r > 0 and
\* alpha > 0, for every predator i and prey j at non-zero distance, what the
\* pair adds to the velocity of predator i is a positive multiple of
\* prey_j - predator_i (towards the prey), what it adds to the velocity of
\* prey j is a positive multiple of the same vector (away from the predator),
\* and the second is alpha*N2/N1 times the first. The velocities of the step
\* are the sums of these terms and of the terms of the particle's own species.
C27_PursuitAndEvasion ==
    [][(DiscretStepped /\ disc.kprime = "step" /\ RLt(RZero, disc.alpha)) =>
         \A dxK \in {CrossTerm(disc, disc'.norm12Diff, 1)},
            dyK \in {CrossTerm(disc, disc'.norm12Diff, 2)} :
         /\ \A i \in 1..disc.N1 : \A j \in 1..disc.N2 :
               (disc.x1[i] # disc.x2[j] \/ disc.y1[i] # disc.y2[j]) =>
                  \A cx \in {ToPredator(disc, dxK, i, j)}, cy \in {ToPredator(disc, dyK, i, j)},
                     ex \in {ToPrey(disc, dxK, i, j)}, ey \in {ToPrey(disc, dyK, i, j)},
                     vx \in {RSub(disc.x2[j], disc.x1[i])},
                     vy \in {RSub(disc.y2[j], disc.y1[i])},
                     ratio \in {RDiv(RMul(disc.alpha, RInt(disc.N2)), RInt(disc.N1))} :
                      /\ PositiveMultiple(cx, cy, vx, vy)
                      /\ PositiveMultiple(ex, ey, vx, vy)
                      /\ ex = RMul(ratio, cx)
                      /\ ey = RMul(ratio, cy)
         /\ \A i \in 1..disc.N1 :
               /\ disc'.dx1[i] = RAdd(SelfTerm(disc.s1prime, disc.x1, disc.y1, i, disc.N1, 1),
                                      ToPredatorSum(disc, dxK, i, disc.N2))
               /\ disc'.dy1[i] = RAdd(SelfTerm(disc.s1prime, disc.x1, disc.y1, i, disc.N1, 2),
                                      ToPredatorSum(disc, dyK, i, disc.N2))
         /\ \A j \in 1..disc.N2 :
               /\ disc'.dx2[j] = RAdd(SelfTerm(disc.s2prime, disc.x2, disc.y2, j, disc.N2, 1),
                                      ToPreySum(disc, dxK, j, disc.N1))
               /\ disc'.dy2[j] = RAdd(SelfTerm(disc.s2prime, disc.x2, disc.y2, j, disc.N2, 2),
                                      ToPreySum(disc, dyK, j, disc.N1))]_vars

\* one predator and one prey across the diagonal of the rectangle, alpha =
\* 0.3: after the first step the predator has moved towards the place where
\* the prey was and the prey away from the place where the predator was, at
\* 0.3 times the predator's velocity
C27_Witness ==
    /\ solver = "discrete"
    /\ disc.n = 1
    /\ disc.N1 = 1 /\ disc.N2 = 1
    /\ disc.kprime = "step"
    /\ disc.alpha = <<3, 10>>
    /\ obs.x1_0[1] # obs.x2_0[1] /\ obs.y1_0[1] # obs.y2_0[1]
    /\ PositiveMultiple(disc.dx1[1], disc.dy1[1],
                        RSub(obs.x2_0[1], obs.x1_0[1]), RSub(obs.y2_0[1], obs.y1_0[1]))
    /\ PositiveMultiple(disc.dx2[1], disc.dy2[1],
                        RSub(obs.x2_0[1], obs.x1_0[1]), RSub(obs.y2_0[1], obs.y1_0[1]))
    /\ disc.dx2[1] = RMul(disc.alpha, disc.dx1[1])

\* the terms of the particles of one species on each other, dxS (comp = 1) or
\* dyS (comp = 2), from their positions x, y, the substituted distances nm
\* and the derivatives primes evaluated on them
SelfMatrix(x, y, primes, nm, comp) ==
    Directional(DiffMatrix(IF comp = 1 THEN x ELSE y, IF comp = 1 THEN x ELSE y,
                           Len(x), Len(x)),
                primes, nm)

\* M[i][k] = -M[k][i], hence M[i][i] = 0
Antisymmetric(M) ==
    \A i, k \in 1..Len(M) : M[i][k] = RNeg(M[k][i]) /\ M[i][i] = RZero

\* C28: in every step of the discrete solver the terms of a species on
\* itself are pairwise antisymmetric (the term of particle k on particle i is
\* the negative of the term of i on k, the term of a particle on itself is 0)
\* and add nothing to the sum of the velocities of the species; when kprime
\* is identically 0, the centroid of the predators and the centroid of the
\* prey are unchanged by every step.
C28_CentroidsKept ==
    [][DiscretStepped =>
         /\ \A comp \in 1..2 :
               \A dS1 \in {SelfMatrix(disc.x1, disc.y1,
                                      S1primes(disc.s1prime, disc'.norm1Diff),
                                      disc'.norm1Diff, comp)},
                  dS2 \in {SelfMatrix(disc.x2, disc.y2,
                                      S2primes(disc.s2prime, disc'.norm2Diff),
                                      disc'.norm2Diff, comp)} :
                  /\ Antisymmetric(dS1) /\ VSum(RowSums(dS1)) = RZero
                  /\ Antisymmetric(dS2) /\ VSum(RowSums(dS2)) = RZero
         /\ ZeroRadial(disc.kprime) =>
               /\ VSum(disc'.dx1) = RZero /\ VSum(disc'.dy1) = RZero
               /\ VSum(disc'.dx2) = RZero /\ VSum(disc'.dy2) = RZero
               /\ RDiv(VSum(disc'.x1), RInt(disc.N1)) = RDiv(VSum(disc.x1), RInt(disc.N1))
               /\ RDiv(VSum(disc'.y1), RInt(disc.N1)) = RDiv(VSum(disc.y1), RInt(disc.N1))
               /\ RDiv(VSum(disc'.x2), RInt(disc.N2)) = RDiv(VSum(disc.x2), RInt(disc.N2))
               /\ RDiv(VSum(disc'.y2), RInt(disc.N2)) = RDiv(VSum(disc.y2), RInt(disc.N2))]_vars

\* two predators and two prey without cross interaction, each species with
\* the notebook's derivative: after the first step both predators and both
\* prey have moved and the two centroids are where they were
C28_Witness ==
    /\ solver = "discrete"
    /\ disc.n = 1
    /\ disc.N1 = 2 /\ disc.N2 = 2
    /\ disc.kprime = "zero" /\ disc.s1prime = "step" /\ disc.s2prime = "step"
    /\ \A i \in 1..2 : <<disc.x1[i], disc.y1[i]>> # <<obs.x1_0[i], obs.y1_0[i]>>
    /\ \A j \in 1..2 : <<disc.x2[j], disc.y2[j]>> # <<obs.x2_0[j], obs.y2_0[j]>>
    /\ VSum(disc.x1) = VSum(obs.x1_0) /\ VSum(disc.y1) = VSum(obs.y1_0)
    /\ VSum(disc.x2) = VSum(obs.x2_0) /\ VSum(disc.y2) = VSum(obs.y2_0)

====
